---- MODULE Spec2Model ----
(***************************************************************************)
(* Timeweb Cloud MCP server: the startup sequence of main(), the tools     *)
(* registered on the MCP server, the path of one tool invocation through   *)
(* schema validation, request assembly, the single makeApiRequest call and *)
(* the rendering of its result, and the pure helpers of services/api.ts    *)
(* (handleApiError, buildPaginationResponse).                              *)
(***************************************************************************)
EXTENDS Integers, Sequences, FiniteSets, TLC

-----------------------------------------------------------------------------
(* constants.ts *)

API_BASE_URL == "https://api.timeweb.cloud"
DEFAULT_LIMIT == 50
MAX_LIMIT == 100
REQUEST_TIMEOUT == 30000

-----------------------------------------------------------------------------
(* Bounds of the model *)

\* How many fields of an argument mapping differ from the minimal valid one.
MaxVaried == 1
\* Largest number of items in a page returned by the backend.
MaxItems == 2
\* Largest meta.total reported by the backend.
MaxTotal == 3
\* Largest total / offset fed to buildPaginationResponse on its own.
MaxCount == 7
\* Largest limit fed to buildPaginationResponse on its own.
MaxLimit == 4

-----------------------------------------------------------------------------
(* JavaScript values.  A number is kept in halves so that 1.5 is           *)
(* representable: n = 2 * value.                                           *)

Undefined == [ty |-> "undefined", n |-> 0, s |-> ""]
Num(k) == [ty |-> "number", n |-> 2 * k, s |-> ""]
Frac(k) == [ty |-> "number", n |-> 2 * k + 1, s |-> ""]
Str(x) == [ty |-> "string", n |-> 0, s |-> x]
Bool(b) == [ty |-> "boolean", n |-> IF b THEN 1 ELSE 0, s |-> ""]
\* an array / a plain object of len entries whose entries are of kind elem
Arr(len, elem) == [ty |-> "array", n |-> len, s |-> elem]
Obj(len, elem) == [ty |-> "object", n |-> len, s |-> elem]

\* ToBoolean, as applied by `if (args.x)` and `args.x || d`
Truthy(v) ==
  CASE v.ty = "undefined" -> FALSE
    [] v.ty = "number" -> v.n # 0
    [] v.ty = "string" -> v.s # ""
    [] v.ty = "boolean" -> v.n = 1
    [] OTHER -> TRUE

-----------------------------------------------------------------------------
(* zod schema descriptors (schemas/common.ts and the inline z.* calls)     *)

zType(t) ==
  [ty |-> t, req |-> TRUE, int |-> FALSE, pos |-> FALSE,
   min |-> <<>>, max |-> <<>>, vals |-> <<>>, elem |-> ""]
zNumber == zType("number")
zString == zType("string")
zBoolean == zType("boolean")
zEnum(values) == [zType("enum") EXCEPT !.vals = values]
zArray(e) == [zType("array") EXCEPT !.elem = e]
zRecord(e) == [zType("record") EXCEPT !.elem = e]
zInt(d) == [d EXCEPT !.int = TRUE]
zPositive(d) == [d EXCEPT !.pos = TRUE]
zMin(d, a) == [d EXCEPT !.min = <<a>>]
zMax(d, b) == [d EXCEPT !.max = <<b>>]
zOptional(d) == [d EXCEPT !.req = FALSE]

paginationSchema ==
  [limit |-> zOptional(zMax(zMin(zInt(zNumber), 1), MAX_LIMIT)),
   offset |-> zOptional(zMin(zInt(zNumber), 0))]
responseFormatSchema == zOptional(zEnum(<<"markdown", "json">>))
idSchema == zPositive(zInt(zNumber))
stringIdSchema == zMin(zString, 1)

\* one entry of a tool's parameter schema
F(name, d) == [name |-> name, z |-> d]

\* does value v parse under descriptor d
Accepts(d, v) ==
  IF v.ty = "undefined" THEN ~d.req
  ELSE CASE d.ty = "number" ->
              /\ v.ty = "number"
              /\ d.int => v.n % 2 = 0
              /\ d.pos => v.n > 0
              /\ d.min # <<>> => v.n >= 2 * d.min[1]
              /\ d.max # <<>> => v.n <= 2 * d.max[1]
         [] d.ty = "string" ->
              /\ v.ty = "string"
              /\ (d.min # <<>> /\ d.min[1] >= 1) => v.s # ""
         [] d.ty = "boolean" -> v.ty = "boolean"
         [] d.ty = "enum" ->
              v.ty = "string" /\ \E i \in DOMAIN d.vals : d.vals[i] = v.s
         [] d.ty = "array" -> v.ty = "array" /\ (v.n = 0 \/ v.s = d.elem)
         [] d.ty = "record" -> v.ty = "object" /\ (v.n = 0 \/ v.s = d.elem)

\* the fields of an argument mapping that fail the schema (zod issue paths)
Violations(schema, args) ==
  {schema[i].name : i \in {j \in DOMAIN schema : ~Accepts(schema[j].z, args[schema[j].name])}}

-----------------------------------------------------------------------------
(* Request assembly: each key of a query or body object comes from one     *)
(* statement of the handler.                                               *)

Rule(k, f, w) ==
  [key |-> k, from |-> f, when |-> w, unless |-> "", dflt |-> Undefined,
   cap |-> <<>>, entries |-> FALSE]
\* { k: args.f }
Always(k, f) == Rule(k, f, "always")
\* if (args.f) body.k = args.f
IfTruthy(k, f) == Rule(k, f, "truthy")
\* if (args.f !== undefined) body.k = args.f
IfDefined(k, f) == Rule(k, f, "defined")
\* k = args.f, without a default
OrElseNothing(k, f, d) == Rule(k, f, "always")
\* k = args.f || d
OrElse(k, f, d) == [Rule(k, f, "orelse") EXCEPT !.dflt = d]
\* k = Math.min(..., m)
AtMost(r, m) == [r EXCEPT !.cap = <<m>>]
\* the statement sits in the else branch of `if (args.g)`
Unless(r, g) == [r EXCEPT !.unless = g]
\* body.k = Object.entries(args.f).map(([key, value]) => ({ key, value }))
Entries(r) == [r EXCEPT !.entries = TRUE]

\* statements that copy an argument without looking at it
FiresUnguarded(r, args) ==
  r.unless # "" => ~Truthy(args[r.unless])

\* does the statement run
Fires(r, args) ==
  /\ r.unless # "" => ~Truthy(args[r.unless])
  /\ CASE r.when = "always" -> TRUE
       [] r.when = "truthy" -> Truthy(args[r.from])
       [] r.when = "defined" -> args[r.from] # Undefined
       [] r.when = "orelse" -> TRUE

ValueOf(r, args) ==
  LET v == IF r.when = "orelse" /\ ~Truthy(args[r.from]) THEN r.dflt ELSE args[r.from]
      w == IF r.cap # <<>> /\ v.ty = "number" /\ v.n > 2 * r.cap[1] THEN Num(r.cap[1]) ELSE v
  IN  IF r.entries THEN Arr(w.n, "entry") ELSE w

\* the object the statements build: its keys and their values
Assemble(rules, args) ==
  LET live == {i \in DOMAIN rules : Fires(rules[i], args)}
  IN  [k \in {rules[i].key : i \in live} |->
         ValueOf(rules[CHOOSE i \in live : rules[i].key = k], args)]

\* one server.tool(name, description, schema, handler) registration
Tool(mod, nm, kd, pg, jb, sch, mth, pth, pps, qm, qr, hb, bd) ==
  [module |-> mod, name |-> nm, kind |-> kd, paginated |-> pg, jsonBranch |-> jb,
   schema |-> sch, method |-> mth, path |-> pth, pathParams |-> pps,
   queryMode |-> qm, query |-> qr, hasBody |-> hb, body |-> bd]

\* what the handler of one registration does with the awaited response:
\* key/dflt: `const x = response.key || dflt`; shape/under/extras: the value
\* given to JSON.stringify (the value as is, the whole response, an object
\* literal holding it under a key next to other keys, an acknowledgement, or
\* no structured branch); empty: the sentence returned for an empty array;
\* heading, summary, sep, fmt: the template of the rendered list.  Sentences
\* and headings alternate literal text and argument names.
View(nm, key, dflt, shape, under, extras, empty, heading, summary, sep, fmt) ==
  [name |-> nm, key |-> key, dflt |-> dflt, shape |-> shape, under |-> under,
   extras |-> extras, empty |-> empty, heading |-> heading, summary |-> summary,
   sep |-> sep, fmt |-> fmt]

-----------------------------------------------------------------------------
(* The tools, one table per register function *)

\* registerAccountTools(server): the tools this function registers, in order (src/src/tools/account.ts).
registerAccountTools ==
  <<
    Tool("registerAccountTools", "timeweb_get_account_status", "get", FALSE, TRUE,
         << F("format", responseFormatSchema) >>,
         "GET", "/api/v1/account/status", <<>>,
         "none", <<>>,
         FALSE, <<>>),
    Tool("registerAccountTools", "timeweb_get_finances", "get", FALSE, TRUE,
         << F("format", responseFormatSchema) >>,
         "GET", "/api/v1/account/finances", <<>>,
         "none", <<>>,
         FALSE, <<>>),
    Tool("registerAccountTools", "timeweb_get_service_prices", "get", FALSE, TRUE,
         << F("format", responseFormatSchema) >>,
         "GET", "/api/v1/prices", <<>>,
         "none", <<>>,
         FALSE, <<>>)
  >>

\* registerServerTools(server): the tools this function registers, in order (src/src/tools/servers.ts).
registerServerTools ==
  <<
    Tool("registerServerTools", "timeweb_list_servers", "list", TRUE, TRUE,
         << F("limit", paginationSchema.limit), F("offset", paginationSchema.offset),
           F("format", responseFormatSchema) >>,
         "GET", "/api/v1/servers", <<>>,
         "always", << AtMost(OrElse("limit", "limit", Num(DEFAULT_LIMIT)), MAX_LIMIT),
           OrElse("offset", "offset", Num(0)) >>,
         FALSE, <<>>),
    Tool("registerServerTools", "timeweb_get_server", "get", FALSE, TRUE,
         << F("server_id", idSchema), F("format", responseFormatSchema) >>,
         "GET", "/api/v1/servers/{server_id}", << "server_id" >>,
         "none", <<>>,
         FALSE, <<>>),
    Tool("registerServerTools", "timeweb_create_server", "create", FALSE, TRUE,
         << F("name", zString), F("os_id", zNumber), F("preset_id", zOptional(zNumber)),
           F("cpu", zOptional(zNumber)), F("ram", zOptional(zNumber)), F("disk", zOptional(zNumber)),
           F("bandwidth", zOptional(zNumber)),
           F("location", zOptional(zEnum(<<"ru-1", "ru-2", "ru-3", "pl-1", "kz-1", "nl-1">>))),
           F("ssh_keys_ids", zOptional(zArray("number"))), F("is_ddos_guard", zOptional(zBoolean)),
           F("format", responseFormatSchema) >>,
         "POST", "/api/v1/servers", <<>>,
         "none", <<>>,
         TRUE, << Always("name", "name"), Always("os_id", "os_id"), IfTruthy("preset_id", "preset_id"),
           Unless(IfTruthy("configurator.cpu", "cpu"), "preset_id"),
           Unless(IfTruthy("configurator.ram", "ram"), "preset_id"),
           Unless(IfTruthy("configurator.disk", "disk"), "preset_id"),
           IfTruthy("bandwidth", "bandwidth"), IfTruthy("location", "location"),
           IfTruthy("ssh_keys_ids", "ssh_keys_ids"), IfDefined("is_ddos_guard", "is_ddos_guard") >>),
    Tool("registerServerTools", "timeweb_server_action", "action", FALSE, TRUE,
         << F("server_id", idSchema),
           F("action", zEnum(<<"start", "stop", "reboot", "shutdown", "reset_password", "reinstall", "clone", "hard_shutdown">>)),
           F("format", responseFormatSchema) >>,
         "POST", "/api/v1/servers/{server_id}/{action}", << "server_id", "action" >>,
         "none", <<>>,
         FALSE, <<>>),
    Tool("registerServerTools", "timeweb_delete_server", "delete", FALSE, TRUE,
         << F("server_id", idSchema), F("format", responseFormatSchema) >>,
         "DELETE", "/api/v1/servers/{server_id}", << "server_id" >>,
         "none", <<>>,
         FALSE, <<>>),
    Tool("registerServerTools", "timeweb_list_os", "list", FALSE, TRUE,
         << F("format", responseFormatSchema) >>,
         "GET", "/api/v1/os/servers", <<>>,
         "none", <<>>,
         FALSE, <<>>),
    Tool("registerServerTools", "timeweb_list_server_presets", "list", FALSE, TRUE,
         << F("format", responseFormatSchema) >>,
         "GET", "/api/v1/presets/servers", <<>>,
         "none", <<>>,
         FALSE, <<>>),
    Tool("registerServerTools", "timeweb_get_server_logs", "get", FALSE, TRUE,
         << F("server_id", idSchema), F("limit", zOptional(zMax(zMin(zInt(zNumber), 1), 1000))),
           F("order", zOptional(zEnum(<<"asc", "desc">>))), F("format", responseFormatSchema) >>,
         "GET", "/api/v1/servers/{server_id}/logs", << "server_id" >>,
         "always", << OrElse("limit", "limit", Num(100)), OrElse("order", "order", Str("desc")) >>,
         FALSE, <<>>),
    Tool("registerServerTools", "timeweb_get_server_statistics", "get", FALSE, TRUE,
         << F("server_id", idSchema), F("date_from", zOptional(zString)),
           F("date_to", zOptional(zString)), F("format", responseFormatSchema) >>,
         "GET", "/api/v1/servers/{server_id}/statistics", << "server_id" >>,
         "nonempty", << IfTruthy("date_from", "date_from"), IfTruthy("date_to", "date_to") >>,
         FALSE, <<>>)
  >>

\* registerDatabaseTools(server): the tools this function registers, in order (src/unnamed/part_001).
registerDatabaseToolsShort ==
  <<
    Tool("registerDatabaseToolsShort", "timeweb_list_databases", "list", TRUE, TRUE,
         << F("limit", paginationSchema.limit), F("offset", paginationSchema.offset),
           F("format", responseFormatSchema) >>,
         "GET", "/api/v1/dbs", <<>>,
         "always", << AtMost(OrElse("limit", "limit", Num(DEFAULT_LIMIT)), MAX_LIMIT),
           OrElse("offset", "offset", Num(0)) >>,
         FALSE, <<>>),
    Tool("registerDatabaseToolsShort", "timeweb_get_database", "get", FALSE, TRUE,
         << F("db_id", idSchema), F("format", responseFormatSchema) >>,
         "GET", "/api/v1/dbs/{db_id}", << "db_id" >>,
         "none", <<>>,
         FALSE, <<>>),
    Tool("registerDatabaseToolsShort", "timeweb_create_database", "create", FALSE, TRUE,
         << F("name", zString),
           F("type", zEnum(<<"mysql", "mysql5", "postgres", "redis", "mongodb", "clickhouse">>)),
           F("preset_id", zNumber), F("login", zOptional(zString)), F("password", zOptional(zString)),
           F("hash_type", zOptional(zEnum(<<"caching_sha2", "mysql_native">>))),
           F("location", zOptional(zEnum(<<"ru-1", "ru-2", "ru-3", "pl-1", "kz-1", "nl-1">>))),
           F("format", responseFormatSchema) >>,
         "POST", "/api/v1/dbs", <<>>,
         "none", <<>>,
         TRUE, << Always("name", "name"), Always("type", "type"), Always("preset_id", "preset_id"),
           IfTruthy("login", "login"), IfTruthy("password", "password"),
           IfTruthy("hash_type", "hash_type"), IfTruthy("location", "location") >>),
    Tool("registerDatabaseToolsShort", "timeweb_delete_database", "delete", FALSE, TRUE,
         << F("db_id", idSchema), F("format", responseFormatSchema) >>,
         "DELETE", "/api/v1/dbs/{db_id}", << "db_id" >>,
         "none", <<>>,
         FALSE, <<>>),
    Tool("registerDatabaseToolsShort", "timeweb_list_database_presets", "list", FALSE, TRUE,
         << F("format", responseFormatSchema) >>,
         "GET", "/api/v1/presets/dbs", <<>>,
         "none", <<>>,
         FALSE, <<>>)
  >>

\* registerDatabaseTools(server): the tools this function registers, in order (src/unnamed/part_001).
registerDatabaseTools ==
  <<
    Tool("registerDatabaseTools", "timeweb_list_databases", "list", TRUE, TRUE,
         << F("limit", paginationSchema.limit), F("offset", paginationSchema.offset),
           F("format", responseFormatSchema) >>,
         "GET", "/api/v1/dbs", <<>>,
         "always", << AtMost(OrElse("limit", "limit", Num(DEFAULT_LIMIT)), MAX_LIMIT),
           OrElse("offset", "offset", Num(0)) >>,
         FALSE, <<>>),
    Tool("registerDatabaseTools", "timeweb_get_database", "get", FALSE, TRUE,
         << F("db_id", idSchema), F("format", responseFormatSchema) >>,
         "GET", "/api/v1/dbs/{db_id}", << "db_id" >>,
         "none", <<>>,
         FALSE, <<>>),
    Tool("registerDatabaseTools", "timeweb_create_database", "create", FALSE, TRUE,
         << F("name", zString),
           F("type", zEnum(<<"mysql", "mysql5", "postgres", "redis", "mongodb", "clickhouse">>)),
           F("preset_id", zNumber), F("login", zOptional(zString)), F("password", zOptional(zString)),
           F("hash_type", zOptional(zEnum(<<"caching_sha2", "mysql_native">>))),
           F("location", zOptional(zEnum(<<"ru-1", "ru-2", "ru-3", "pl-1", "kz-1", "nl-1">>))),
           F("format", responseFormatSchema) >>,
         "POST", "/api/v1/dbs", <<>>,
         "none", <<>>,
         TRUE, << Always("name", "name"), Always("type", "type"), Always("preset_id", "preset_id"),
           IfTruthy("login", "login"), IfTruthy("password", "password"),
           IfTruthy("hash_type", "hash_type"), IfTruthy("location", "location") >>),
    Tool("registerDatabaseTools", "timeweb_delete_database", "delete", FALSE, TRUE,
         << F("db_id", idSchema), F("format", responseFormatSchema) >>,
         "DELETE", "/api/v1/dbs/{db_id}", << "db_id" >>,
         "none", <<>>,
         FALSE, <<>>),
    Tool("registerDatabaseTools", "timeweb_list_database_presets", "list", FALSE, TRUE,
         << F("format", responseFormatSchema) >>,
         "GET", "/api/v1/presets/dbs", <<>>,
         "none", <<>>,
         FALSE, <<>>),
    Tool("registerDatabaseTools", "timeweb_list_database_backups", "list", TRUE, TRUE,
         << F("db_id", idSchema), F("limit", paginationSchema.limit),
           F("offset", paginationSchema.offset), F("format", responseFormatSchema) >>,
         "GET", "/api/v1/dbs/{db_id}/backups", << "db_id" >>,
         "always", << AtMost(OrElse("limit", "limit", Num(DEFAULT_LIMIT)), MAX_LIMIT),
           OrElse("offset", "offset", Num(0)) >>,
         FALSE, <<>>),
    Tool("registerDatabaseTools", "timeweb_create_database_backup", "create", FALSE, TRUE,
         << F("db_id", idSchema), F("comment", zOptional(zString)), F("format", responseFormatSchema) >>,
         "POST", "/api/v1/dbs/{db_id}/backups", << "db_id" >>,
         "none", <<>>,
         TRUE, << IfTruthy("comment", "comment") >>),
    Tool("registerDatabaseTools", "timeweb_delete_database_backup", "delete", FALSE, TRUE,
         << F("db_id", idSchema), F("backup_id", idSchema), F("format", responseFormatSchema) >>,
         "DELETE", "/api/v1/dbs/{db_id}/backups/{backup_id}", << "db_id", "backup_id" >>,
         "none", <<>>,
         FALSE, <<>>),
    Tool("registerDatabaseTools", "timeweb_get_database_auto_backups", "get", FALSE, TRUE,
         << F("db_id", idSchema), F("format", responseFormatSchema) >>,
         "GET", "/api/v1/dbs/{db_id}/auto-backups", << "db_id" >>,
         "none", <<>>,
         FALSE, <<>>)
  >>

\* registerDiskTools(server): the tools this function registers, in order (src/unnamed/part_001).
registerDiskTools ==
  <<
    Tool("registerDiskTools", "timeweb_list_server_disks", "list", FALSE, TRUE,
         << F("server_id", idSchema), F("format", responseFormatSchema) >>,
         "GET", "/api/v1/servers/{server_id}/disks", << "server_id" >>,
         "none", <<>>,
         FALSE, <<>>),
    Tool("registerDiskTools", "timeweb_get_server_disk", "get", FALSE, TRUE,
         << F("server_id", idSchema), F("disk_id", idSchema), F("format", responseFormatSchema) >>,
         "GET", "/api/v1/servers/{server_id}/disks/{disk_id}", << "server_id", "disk_id" >>,
         "none", <<>>,
         FALSE, <<>>),
    Tool("registerDiskTools", "timeweb_create_server_disk", "create", FALSE, TRUE,
         << F("server_id", idSchema), F("size", zMin(zInt(zNumber), 5120)),
           F("type", zOptional(zEnum(<<"nvme", "ssd", "hdd">>))), F("format", responseFormatSchema) >>,
         "POST", "/api/v1/servers/{server_id}/disks", << "server_id" >>,
         "none", <<>>,
         TRUE, << Always("size", "size"), IfTruthy("type", "type") >>),
    Tool("registerDiskTools", "timeweb_update_server_disk", "update", FALSE, TRUE,
         << F("server_id", idSchema), F("disk_id", idSchema), F("size", zMin(zInt(zNumber), 5120)),
           F("format", responseFormatSchema) >>,
         "PATCH", "/api/v1/servers/{server_id}/disks/{disk_id}", << "server_id", "disk_id" >>,
         "none", <<>>,
         TRUE, << Always("size", "size") >>),
    Tool("registerDiskTools", "timeweb_delete_server_disk", "delete", FALSE, TRUE,
         << F("server_id", idSchema), F("disk_id", idSchema), F("format", responseFormatSchema) >>,
         "DELETE", "/api/v1/servers/{server_id}/disks/{disk_id}", << "server_id", "disk_id" >>,
         "none", <<>>,
         FALSE, <<>>)
  >>

\* registerKubernetesTools(server): the tools this function registers, in order (src/src/tools/kubernetes.ts).
registerKubernetesTools ==
  <<
    Tool("registerKubernetesTools", "timeweb_list_k8s_clusters", "list", TRUE, TRUE,
         << F("limit", paginationSchema.limit), F("offset", paginationSchema.offset),
           F("format", responseFormatSchema) >>,
         "GET", "/api/v1/k8s/clusters", <<>>,
         "always", << AtMost(OrElse("limit", "limit", Num(DEFAULT_LIMIT)), MAX_LIMIT),
           OrElse("offset", "offset", Num(0)) >>,
         FALSE, <<>>),
    Tool("registerKubernetesTools", "timeweb_get_k8s_cluster", "get", FALSE, TRUE,
         << F("cluster_id", idSchema), F("format", responseFormatSchema) >>,
         "GET", "/api/v1/k8s/clusters/{cluster_id}", << "cluster_id" >>,
         "none", <<>>,
         FALSE, <<>>),
    Tool("registerKubernetesTools", "timeweb_create_k8s_cluster", "create", FALSE, TRUE,
         << F("name", zString), F("k8s_version", zOptional(zString)), F("preset_id", zNumber),
           F("worker_groups", zOptional(zArray("object"))),
           F("network_driver", zOptional(zEnum(<<"flannel", "cilium">>))),
           F("ingress", zOptional(zBoolean)), F("description", zOptional(zString)),
           F("format", responseFormatSchema) >>,
         "POST", "/api/v1/k8s/clusters", <<>>,
         "none", <<>>,
         TRUE, << Always("name", "name"), Always("preset_id", "preset_id"),
           IfTruthy("k8s_version", "k8s_version"), IfTruthy("worker_groups", "worker_groups"),
           IfTruthy("network_driver", "network_driver"), IfDefined("ingress", "ingress"),
           IfTruthy("description", "description") >>),
    Tool("registerKubernetesTools", "timeweb_delete_k8s_cluster", "delete", FALSE, TRUE,
         << F("cluster_id", idSchema), F("format", responseFormatSchema) >>,
         "DELETE", "/api/v1/k8s/clusters/{cluster_id}", << "cluster_id" >>,
         "none", <<>>,
         FALSE, <<>>),
    Tool("registerKubernetesTools", "timeweb_get_kubeconfig", "get", FALSE, FALSE,
         << F("cluster_id", idSchema) >>,
         "GET", "/api/v1/k8s/clusters/{cluster_id}/kubeconfig", << "cluster_id" >>,
         "none", <<>>,
         FALSE, <<>>),
    Tool("registerKubernetesTools", "timeweb_list_k8s_versions", "list", FALSE, TRUE,
         << F("format", responseFormatSchema) >>,
         "GET", "/api/v1/k8s/k8s_versions", <<>>,
         "none", <<>>,
         FALSE, <<>>)
  >>

\* registerStorageTools(server): the tools this function registers, in order (src/unnamed/part_002).
registerStorageTools ==
  <<
    Tool("registerStorageTools", "timeweb_list_s3_storages", "list", TRUE, TRUE,
         << F("limit", paginationSchema.limit), F("offset", paginationSchema.offset),
           F("format", responseFormatSchema) >>,
         "GET", "/api/v1/storages/buckets", <<>>,
         "always", << AtMost(OrElse("limit", "limit", Num(DEFAULT_LIMIT)), MAX_LIMIT),
           OrElse("offset", "offset", Num(0)) >>,
         FALSE, <<>>),
    Tool("registerStorageTools", "timeweb_create_s3_storage", "create", FALSE, TRUE,
         << F("name", zString), F("preset_id", zNumber),
           F("type", zOptional(zEnum(<<"private", "public">>))),
           F("location", zOptional(zEnum(<<"ru-1", "ru-2", "ru-3", "pl-1", "kz-1", "nl-1">>))),
           F("format", responseFormatSchema) >>,
         "POST", "/api/v1/storages/buckets", <<>>,
         "none", <<>>,
         TRUE, << Always("name", "name"), Always("preset_id", "preset_id"), IfTruthy("type", "type"),
           IfTruthy("location", "location") >>),
    Tool("registerStorageTools", "timeweb_delete_s3_storage", "delete", FALSE, TRUE,
         << F("bucket_id", idSchema), F("format", responseFormatSchema) >>,
         "DELETE", "/api/v1/storages/buckets/{bucket_id}", << "bucket_id" >>,
         "none", <<>>,
         FALSE, <<>>),
    Tool("registerStorageTools", "timeweb_list_s3_presets", "list", FALSE, TRUE,
         << F("format", responseFormatSchema) >>,
         "GET", "/api/v1/presets/storages", <<>>,
         "none", <<>>,
         FALSE, <<>>)
  >>

\* registerDomainTools(server): the tools this function registers, in order (src/unnamed/part_006).
registerDomainTools ==
  <<
    Tool("registerDomainTools", "timeweb_list_domains", "list", TRUE, TRUE,
         << F("limit", paginationSchema.limit), F("offset", paginationSchema.offset),
           F("format", responseFormatSchema) >>,
         "GET", "/api/v1/domains", <<>>,
         "always", << AtMost(OrElse("limit", "limit", Num(DEFAULT_LIMIT)), MAX_LIMIT),
           OrElse("offset", "offset", Num(0)) >>,
         FALSE, <<>>),
    Tool("registerDomainTools", "timeweb_get_domain", "get", FALSE, TRUE,
         << F("fqdn", zString), F("format", responseFormatSchema) >>,
         "GET", "/api/v1/domains/{fqdn}", << "fqdn" >>,
         "none", <<>>,
         FALSE, <<>>),
    Tool("registerDomainTools", "timeweb_check_domain", "get", FALSE, TRUE,
         << F("fqdn", zString), F("format", responseFormatSchema) >>,
         "GET", "/api/v1/check-domain/{fqdn}", << "fqdn" >>,
         "none", <<>>,
         FALSE, <<>>),
    Tool("registerDomainTools", "timeweb_list_dns_records", "list", TRUE, TRUE,
         << F("fqdn", zString), F("limit", paginationSchema.limit), F("offset", paginationSchema.offset),
           F("format", responseFormatSchema) >>,
         "GET", "/api/v1/domains/{fqdn}/dns-records", << "fqdn" >>,
         "always", << AtMost(OrElse("limit", "limit", Num(DEFAULT_LIMIT)), MAX_LIMIT),
           OrElse("offset", "offset", Num(0)) >>,
         FALSE, <<>>),
    Tool("registerDomainTools", "timeweb_create_dns_record", "create", FALSE, TRUE,
         << F("fqdn", zString),
           F("type", zEnum(<<"A", "AAAA", "CNAME", "MX", "TXT", "NS", "SRV", "CAA">>)),
           F("value", zString), F("subdomain", zOptional(zString)), F("priority", zOptional(zNumber)),
           F("ttl", zOptional(zNumber)), F("format", responseFormatSchema) >>,
         "POST", "/api/v1/domains/{fqdn}/dns-records", << "fqdn" >>,
         "none", <<>>,
         TRUE, << Always("type", "type"), Always("value", "value"), IfTruthy("subdomain", "subdomain"),
           IfDefined("priority", "priority"), IfDefined("ttl", "ttl") >>),
    Tool("registerDomainTools", "timeweb_delete_dns_record", "delete", FALSE, TRUE,
         << F("fqdn", zString), F("record_id", zNumber), F("format", responseFormatSchema) >>,
         "DELETE", "/api/v1/domains/{fqdn}/dns-records/{record_id}", << "fqdn", "record_id" >>,
         "none", <<>>,
         FALSE, <<>>)
  >>

\* registerProjectTools(server): the tools this function registers, in order (src/unnamed/part_006).
registerProjectTools ==
  <<
    Tool("registerProjectTools", "timeweb_list_projects", "list", TRUE, TRUE,
         << F("limit", paginationSchema.limit), F("offset", paginationSchema.offset),
           F("format", responseFormatSchema) >>,
         "GET", "/api/v1/projects", <<>>,
         "always", << AtMost(OrElse("limit", "limit", Num(DEFAULT_LIMIT)), MAX_LIMIT),
           OrElse("offset", "offset", Num(0)) >>,
         FALSE, <<>>),
    Tool("registerProjectTools", "timeweb_get_project", "get", FALSE, TRUE,
         << F("project_id", idSchema), F("format", responseFormatSchema) >>,
         "GET", "/api/v1/projects/{project_id}", << "project_id" >>,
         "none", <<>>,
         FALSE, <<>>),
    Tool("registerProjectTools", "timeweb_create_project", "create", FALSE, TRUE,
         << F("name", zString), F("description", zOptional(zString)), F("avatar_id", zOptional(zString)),
           F("format", responseFormatSchema) >>,
         "POST", "/api/v1/projects", <<>>,
         "none", <<>>,
         TRUE, << Always("name", "name"), IfTruthy("description", "description"),
           IfTruthy("avatar_id", "avatar_id") >>),
    Tool("registerProjectTools", "timeweb_delete_project", "delete", FALSE, TRUE,
         << F("project_id", idSchema), F("format", responseFormatSchema) >>,
         "DELETE", "/api/v1/projects/{project_id}", << "project_id" >>,
         "none", <<>>,
         FALSE, <<>>)
  >>

\* registerSshKeyTools(server): the tools this function registers, in order (src/unnamed/part_003).
registerSshKeyTools ==
  <<
    Tool("registerSshKeyTools", "timeweb_list_ssh_keys", "list", TRUE, TRUE,
         << F("limit", paginationSchema.limit), F("offset", paginationSchema.offset),
           F("format", responseFormatSchema) >>,
         "GET", "/api/v1/ssh-keys", <<>>,
         "always", << AtMost(OrElse("limit", "limit", Num(DEFAULT_LIMIT)), MAX_LIMIT),
           OrElse("offset", "offset", Num(0)) >>,
         FALSE, <<>>),
    Tool("registerSshKeyTools", "timeweb_get_ssh_key", "get", FALSE, TRUE,
         << F("ssh_key_id", idSchema), F("format", responseFormatSchema) >>,
         "GET", "/api/v1/ssh-keys/{ssh_key_id}", << "ssh_key_id" >>,
         "none", <<>>,
         FALSE, <<>>),
    Tool("registerSshKeyTools", "timeweb_create_ssh_key", "create", FALSE, TRUE,
         << F("name", zString), F("body", zString), F("format", responseFormatSchema) >>,
         "POST", "/api/v1/ssh-keys", <<>>,
         "none", <<>>,
         TRUE, << Always("name", "name"), Always("body", "body") >>),
    Tool("registerSshKeyTools", "timeweb_delete_ssh_key", "delete", FALSE, TRUE,
         << F("ssh_key_id", idSchema), F("format", responseFormatSchema) >>,
         "DELETE", "/api/v1/ssh-keys/{ssh_key_id}", << "ssh_key_id" >>,
         "none", <<>>,
         FALSE, <<>>),
    Tool("registerSshKeyTools", "timeweb_add_ssh_key_to_server", "action", FALSE, TRUE,
         << F("server_id", idSchema), F("ssh_key_id", idSchema), F("format", responseFormatSchema) >>,
         "POST", "/api/v1/servers/{server_id}/ssh-keys", << "server_id" >>,
         "none", <<>>,
         TRUE, << Always("ssh_key_id", "ssh_key_id") >>)
  >>

\* registerFloatingIpTools(server): the tools this function registers, in order (src/src/tools/floating-ips.ts).
registerFloatingIpTools ==
  <<
    Tool("registerFloatingIpTools", "timeweb_list_floating_ips", "list", TRUE, TRUE,
         << F("limit", paginationSchema.limit), F("offset", paginationSchema.offset),
           F("format", responseFormatSchema) >>,
         "GET", "/api/v1/floating-ips", <<>>,
         "always", << AtMost(OrElse("limit", "limit", Num(DEFAULT_LIMIT)), MAX_LIMIT),
           OrElse("offset", "offset", Num(0)) >>,
         FALSE, <<>>),
    Tool("registerFloatingIpTools", "timeweb_get_floating_ip", "get", FALSE, TRUE,
         << F("floating_ip_id", stringIdSchema), F("format", responseFormatSchema) >>,
         "GET", "/api/v1/floating-ips/{floating_ip_id}", << "floating_ip_id" >>,
         "none", <<>>,
         FALSE, <<>>),
    Tool("registerFloatingIpTools", "timeweb_create_floating_ip", "create", FALSE, TRUE,
         << F("availability_zone", zOptional(zString)), F("is_ddos_guard", zOptional(zBoolean)),
           F("comment", zOptional(zString)), F("format", responseFormatSchema) >>,
         "POST", "/api/v1/floating-ips", <<>>,
         "none", <<>>,
         TRUE, << IfTruthy("availability_zone", "availability_zone"),
           IfDefined("is_ddos_guard", "is_ddos_guard"), IfTruthy("comment", "comment") >>),
    Tool("registerFloatingIpTools", "timeweb_delete_floating_ip", "delete", FALSE, TRUE,
         << F("floating_ip_id", stringIdSchema), F("format", responseFormatSchema) >>,
         "DELETE", "/api/v1/floating-ips/{floating_ip_id}", << "floating_ip_id" >>,
         "none", <<>>,
         FALSE, <<>>),
    Tool("registerFloatingIpTools", "timeweb_bind_floating_ip", "action", FALSE, TRUE,
         << F("floating_ip_id", stringIdSchema), F("resource_type", zEnum(<<"server", "balancer">>)),
           F("resource_id", zNumber), F("format", responseFormatSchema) >>,
         "POST", "/api/v1/floating-ips/{floating_ip_id}/bind", << "floating_ip_id" >>,
         "none", <<>>,
         TRUE, << Always("resource_type", "resource_type"), Always("resource_id", "resource_id") >>),
    Tool("registerFloatingIpTools", "timeweb_unbind_floating_ip", "action", FALSE, TRUE,
         << F("floating_ip_id", stringIdSchema), F("format", responseFormatSchema) >>,
         "POST", "/api/v1/floating-ips/{floating_ip_id}/unbind", << "floating_ip_id" >>,
         "none", <<>>,
         FALSE, <<>>)
  >>

\* registerLocationTools(server): the tools this function registers, in order (src/src/tools/locations.ts).
registerLocationTools ==
  <<
    Tool("registerLocationTools", "timeweb_list_locations", "list", FALSE, TRUE,
         << F("format", responseFormatSchema) >>,
         "GET", "/api/v2/locations", <<>>,
         "none", <<>>,
         FALSE, <<>>)
  >>

\* registerVpcTools(server): the tools this function registers, in order (src/src/tools/vpc.ts).
registerVpcTools ==
  <<
    Tool("registerVpcTools", "timeweb_list_vpcs", "list", TRUE, TRUE,
         << F("limit", paginationSchema.limit), F("offset", paginationSchema.offset),
           F("format", responseFormatSchema) >>,
         "GET", "/api/v2/vpcs", <<>>,
         "always", << AtMost(OrElse("limit", "limit", Num(DEFAULT_LIMIT)), MAX_LIMIT),
           OrElse("offset", "offset", Num(0)) >>,
         FALSE, <<>>),
    Tool("registerVpcTools", "timeweb_get_vpc", "get", FALSE, TRUE,
         << F("vpc_id", stringIdSchema), F("format", responseFormatSchema) >>,
         "GET", "/api/v2/vpcs/{vpc_id}", << "vpc_id" >>,
         "none", <<>>,
         FALSE, <<>>),
    Tool("registerVpcTools", "timeweb_create_vpc", "create", FALSE, TRUE,
         << F("name", zString), F("subnet_v4", zOptional(zString)),
           F("location", zOptional(zEnum(<<"ru-1", "ru-2", "ru-3", "pl-1", "kz-1", "nl-1">>))),
           F("description", zOptional(zString)), F("format", responseFormatSchema) >>,
         "POST", "/api/v2/vpcs", <<>>,
         "none", <<>>,
         TRUE, << Always("name", "name"), IfTruthy("subnet_v4", "subnet_v4"), IfTruthy("location", "location"),
           IfTruthy("description", "description") >>),
    Tool("registerVpcTools", "timeweb_update_vpc", "update", FALSE, TRUE,
         << F("vpc_id", stringIdSchema), F("name", zOptional(zString)),
           F("description", zOptional(zString)), F("format", responseFormatSchema) >>,
         "PATCH", "/api/v2/vpcs/{vpc_id}", << "vpc_id" >>,
         "none", <<>>,
         TRUE, << IfTruthy("name", "name"), IfTruthy("description", "description") >>),
    Tool("registerVpcTools", "timeweb_delete_vpc", "delete", FALSE, TRUE,
         << F("vpc_id", stringIdSchema), F("format", responseFormatSchema) >>,
         "DELETE", "/api/v2/vpcs/{vpc_id}", << "vpc_id" >>,
         "none", <<>>,
         FALSE, <<>>),
    Tool("registerVpcTools", "timeweb_list_vpc_services", "list", FALSE, TRUE,
         << F("vpc_id", stringIdSchema), F("format", responseFormatSchema) >>,
         "GET", "/api/v2/vpcs/{vpc_id}/services", << "vpc_id" >>,
         "none", <<>>,
         FALSE, <<>>)
  >>

\* registerFirewallTools(server): the tools this function registers, in order (src/src/tools/firewall.ts).
registerFirewallTools ==
  <<
    Tool("registerFirewallTools", "timeweb_list_firewall_groups", "list", TRUE, TRUE,
         << F("limit", paginationSchema.limit), F("offset", paginationSchema.offset),
           F("format", responseFormatSchema) >>,
         "GET", "/api/v1/firewall/groups", <<>>,
         "always", << AtMost(OrElse("limit", "limit", Num(DEFAULT_LIMIT)), MAX_LIMIT),
           OrElse("offset", "offset", Num(0)) >>,
         FALSE, <<>>),
    Tool("registerFirewallTools", "timeweb_get_firewall_group", "get", FALSE, TRUE,
         << F("group_id", idSchema), F("format", responseFormatSchema) >>,
         "GET", "/api/v1/firewall/groups/{group_id}", << "group_id" >>,
         "none", <<>>,
         FALSE, <<>>),
    Tool("registerFirewallTools", "timeweb_create_firewall_group", "create", FALSE, TRUE,
         << F("name", zString), F("description", zOptional(zString)),
           F("incoming_traffic_policy", zOptional(zEnum(<<"allow", "deny">>))),
           F("outgoing_traffic_policy", zOptional(zEnum(<<"allow", "deny">>))),
           F("format", responseFormatSchema) >>,
         "POST", "/api/v1/firewall/groups", <<>>,
         "none", <<>>,
         TRUE, << Always("name", "name"), IfTruthy("description", "description"),
           IfTruthy("incoming_traffic_policy", "incoming_traffic_policy"),
           IfTruthy("outgoing_traffic_policy", "outgoing_traffic_policy") >>),
    Tool("registerFirewallTools", "timeweb_update_firewall_group", "update", FALSE, TRUE,
         << F("group_id", idSchema), F("name", zOptional(zString)), F("description", zOptional(zString)),
           F("incoming_traffic_policy", zOptional(zEnum(<<"allow", "deny">>))),
           F("outgoing_traffic_policy", zOptional(zEnum(<<"allow", "deny">>))),
           F("format", responseFormatSchema) >>,
         "PATCH", "/api/v1/firewall/groups/{group_id}", << "group_id" >>,
         "none", <<>>,
         TRUE, << IfTruthy("name", "name"), IfTruthy("description", "description"),
           IfTruthy("incoming_traffic_policy", "incoming_traffic_policy"),
           IfTruthy("outgoing_traffic_policy", "outgoing_traffic_policy") >>),
    Tool("registerFirewallTools", "timeweb_delete_firewall_group", "delete", FALSE, TRUE,
         << F("group_id", idSchema), F("format", responseFormatSchema) >>,
         "DELETE", "/api/v1/firewall/groups/{group_id}", << "group_id" >>,
         "none", <<>>,
         FALSE, <<>>),
    Tool("registerFirewallTools", "timeweb_list_firewall_rules", "list", TRUE, TRUE,
         << F("group_id", idSchema), F("limit", paginationSchema.limit),
           F("offset", paginationSchema.offset), F("format", responseFormatSchema) >>,
         "GET", "/api/v1/firewall/groups/{group_id}/rules", << "group_id" >>,
         "always", << AtMost(OrElse("limit", "limit", Num(DEFAULT_LIMIT)), MAX_LIMIT),
           OrElse("offset", "offset", Num(0)) >>,
         FALSE, <<>>),
    Tool("registerFirewallTools", "timeweb_create_firewall_rule", "create", FALSE, TRUE,
         << F("group_id", idSchema), F("direction", zEnum(<<"ingress", "egress">>)),
           F("protocol", zEnum(<<"tcp", "udp", "icmp", "any">>)), F("port", zOptional(zString)),
           F("cidr", zString), F("description", zOptional(zString)), F("format", responseFormatSchema) >>,
         "POST", "/api/v1/firewall/groups/{group_id}/rules", << "group_id" >>,
         "none", <<>>,
         TRUE, << Always("direction", "direction"), Always("protocol", "protocol"), Always("cidr", "cidr"),
           IfTruthy("port", "port"), IfTruthy("description", "description") >>),
    Tool("registerFirewallTools", "timeweb_delete_firewall_rule", "delete", FALSE, TRUE,
         << F("group_id", idSchema), F("rule_id", idSchema), F("format", responseFormatSchema) >>,
         "DELETE", "/api/v1/firewall/groups/{group_id}/rules/{rule_id}", << "group_id", "rule_id" >>,
         "none", <<>>,
         FALSE, <<>>)
  >>

\* registerBalancerTools(server): the tools this function registers, in order (src/unnamed/part_004).
registerBalancerTools ==
  <<
    Tool("registerBalancerTools", "timeweb_list_balancers", "list", TRUE, TRUE,
         << F("limit", paginationSchema.limit), F("offset", paginationSchema.offset),
           F("format", responseFormatSchema) >>,
         "GET", "/api/v1/balancers", <<>>,
         "always", << AtMost(OrElse("limit", "limit", Num(DEFAULT_LIMIT)), MAX_LIMIT),
           OrElse("offset", "offset", Num(0)) >>,
         FALSE, <<>>),
    Tool("registerBalancerTools", "timeweb_get_balancer", "get", FALSE, TRUE,
         << F("balancer_id", idSchema), F("format", responseFormatSchema) >>,
         "GET", "/api/v1/balancers/{balancer_id}", << "balancer_id" >>,
         "none", <<>>,
         FALSE, <<>>),
    Tool("registerBalancerTools", "timeweb_create_balancer", "create", FALSE, TRUE,
         << F("name", zString), F("preset_id", idSchema),
           F("algo", zOptional(zEnum(<<"roundrobin", "leastconn">>))),
           F("port", zOptional(zMax(zMin(zInt(zNumber), 1), 65535))),
           F("is_sticky", zOptional(zBoolean)), F("is_use_proxy", zOptional(zBoolean)),
           F("is_ssl", zOptional(zBoolean)), F("is_keepalive", zOptional(zBoolean)),
           F("inter", zOptional(zInt(zNumber))), F("timeout", zOptional(zInt(zNumber))),
           F("fall", zOptional(zInt(zNumber))), F("rise", zOptional(zInt(zNumber))),
           F("format", responseFormatSchema) >>,
         "POST", "/api/v1/balancers", <<>>,
         "none", <<>>,
         TRUE, << Always("name", "name"), Always("preset_id", "preset_id"), IfTruthy("algo", "algo"),
           IfTruthy("port", "port"), IfDefined("is_sticky", "is_sticky"),
           IfDefined("is_use_proxy", "is_use_proxy"), IfDefined("is_ssl", "is_ssl"),
           IfDefined("is_keepalive", "is_keepalive"), IfTruthy("inter", "inter"),
           IfTruthy("timeout", "timeout"), IfTruthy("fall", "fall"), IfTruthy("rise", "rise") >>),
    Tool("registerBalancerTools", "timeweb_update_balancer", "update", FALSE, TRUE,
         << F("balancer_id", idSchema), F("name", zOptional(zString)),
           F("algo", zOptional(zEnum(<<"roundrobin", "leastconn">>))),
           F("port", zOptional(zMax(zMin(zInt(zNumber), 1), 65535))),
           F("is_sticky", zOptional(zBoolean)), F("is_use_proxy", zOptional(zBoolean)),
           F("is_ssl", zOptional(zBoolean)), F("is_keepalive", zOptional(zBoolean)),
           F("inter", zOptional(zInt(zNumber))), F("timeout", zOptional(zInt(zNumber))),
           F("fall", zOptional(zInt(zNumber))), F("rise", zOptional(zInt(zNumber))),
           F("format", responseFormatSchema) >>,
         "PATCH", "/api/v1/balancers/{balancer_id}", << "balancer_id" >>,
         "none", <<>>,
         TRUE, << IfTruthy("name", "name"), IfTruthy("algo", "algo"), IfTruthy("port", "port"),
           IfDefined("is_sticky", "is_sticky"), IfDefined("is_use_proxy", "is_use_proxy"),
           IfDefined("is_ssl", "is_ssl"), IfDefined("is_keepalive", "is_keepalive"),
           IfTruthy("inter", "inter"), IfTruthy("timeout", "timeout"), IfTruthy("fall", "fall"),
           IfTruthy("rise", "rise") >>),
    Tool("registerBalancerTools", "timeweb_delete_balancer", "delete", FALSE, TRUE,
         << F("balancer_id", idSchema), F("format", responseFormatSchema) >>,
         "DELETE", "/api/v1/balancers/{balancer_id}", << "balancer_id" >>,
         "none", <<>>,
         FALSE, <<>>),
    Tool("registerBalancerTools", "timeweb_list_balancer_rules", "list", FALSE, TRUE,
         << F("balancer_id", idSchema), F("format", responseFormatSchema) >>,
         "GET", "/api/v1/balancers/{balancer_id}/rules", << "balancer_id" >>,
         "none", <<>>,
         FALSE, <<>>),
    Tool("registerBalancerTools", "timeweb_create_balancer_rule", "create", FALSE, TRUE,
         << F("balancer_id", idSchema), F("balancer_proto", zEnum(<<"http", "http2", "https", "tcp">>)),
           F("balancer_port", zMax(zMin(zInt(zNumber), 1), 65535)),
           F("server_proto", zEnum(<<"http", "http2", "https", "tcp">>)),
           F("server_port", zMax(zMin(zInt(zNumber), 1), 65535)), F("format", responseFormatSchema) >>,
         "POST", "/api/v1/balancers/{balancer_id}/rules", << "balancer_id" >>,
         "none", <<>>,
         TRUE, << Always("balancer_proto", "balancer_proto"), Always("balancer_port", "balancer_port"),
           Always("server_proto", "server_proto"), Always("server_port", "server_port") >>),
    Tool("registerBalancerTools", "timeweb_list_balancer_presets", "list", FALSE, TRUE,
         << F("format", responseFormatSchema) >>,
         "GET", "/api/v1/presets/balancers", <<>>,
         "none", <<>>,
         FALSE, <<>>)
  >>

\* registerImageTools(server): the tools this function registers, in order (src/unnamed/part_005).
registerImageTools ==
  <<
    Tool("registerImageTools", "timeweb_list_images", "list", TRUE, TRUE,
         << F("limit", paginationSchema.limit), F("offset", paginationSchema.offset),
           F("format", responseFormatSchema) >>,
         "GET", "/api/v1/images", <<>>,
         "always", << AtMost(OrElse("limit", "limit", Num(DEFAULT_LIMIT)), MAX_LIMIT),
           OrElse("offset", "offset", Num(0)) >>,
         FALSE, <<>>),
    Tool("registerImageTools", "timeweb_get_image", "get", FALSE, TRUE,
         << F("image_id", stringIdSchema), F("format", responseFormatSchema) >>,
         "GET", "/api/v1/images/{image_id}", << "image_id" >>,
         "none", <<>>,
         FALSE, <<>>),
    Tool("registerImageTools", "timeweb_create_image", "create", FALSE, TRUE,
         << F("disk_id", idSchema), F("name", zString), F("description", zOptional(zString)),
           F("format", responseFormatSchema) >>,
         "POST", "/api/v1/images", <<>>,
         "none", <<>>,
         TRUE, << Always("disk_id", "disk_id"), Always("name", "name"), IfTruthy("description", "description") >>),
    Tool("registerImageTools", "timeweb_update_image", "update", FALSE, TRUE,
         << F("image_id", stringIdSchema), F("name", zOptional(zString)),
           F("description", zOptional(zString)), F("format", responseFormatSchema) >>,
         "PATCH", "/api/v1/images/{image_id}", << "image_id" >>,
         "none", <<>>,
         TRUE, << IfTruthy("name", "name"), IfTruthy("description", "description") >>),
    Tool("registerImageTools", "timeweb_delete_image", "delete", FALSE, TRUE,
         << F("image_id", stringIdSchema), F("format", responseFormatSchema) >>,
         "DELETE", "/api/v1/images/{image_id}", << "image_id" >>,
         "none", <<>>,
         FALSE, <<>>)
  >>

\* registerAppTools(server): the tools this function registers, in order (src/unnamed/part_005).
registerAppTools ==
  <<
    Tool("registerAppTools", "timeweb_list_apps", "list", TRUE, TRUE,
         << F("limit", paginationSchema.limit), F("offset", paginationSchema.offset),
           F("format", responseFormatSchema) >>,
         "GET", "/api/v1/apps", <<>>,
         "always", << AtMost(OrElse("limit", "limit", Num(DEFAULT_LIMIT)), MAX_LIMIT),
           OrElse("offset", "offset", Num(0)) >>,
         FALSE, <<>>),
    Tool("registerAppTools", "timeweb_get_app", "get", FALSE, TRUE,
         << F("app_id", idSchema), F("format", responseFormatSchema) >>,
         "GET", "/api/v1/apps/{app_id}", << "app_id" >>,
         "none", <<>>,
         FALSE, <<>>),
    Tool("registerAppTools", "timeweb_create_app", "create", FALSE, TRUE,
         << F("name", zString), F("type", zEnum(<<"nodejs", "python", "php", "go", "ruby", "static">>)),
           F("preset_id", idSchema), F("repository_id", idSchema), F("branch", zOptional(zString)),
           F("build_command", zOptional(zString)), F("run_command", zOptional(zString)),
           F("envs", zOptional(zRecord("string"))), F("format", responseFormatSchema) >>,
         "POST", "/api/v1/apps", <<>>,
         "none", <<>>,
         TRUE, << Always("name", "name"), Always("type", "type"), Always("preset_id", "preset_id"),
           Always("repository_id", "repository_id"), IfTruthy("branch", "branch"),
           IfTruthy("build_cmd", "build_command"), IfTruthy("run_cmd", "run_command"),
           Entries(IfTruthy("envs", "envs")) >>),
    Tool("registerAppTools", "timeweb_update_app", "update", FALSE, TRUE,
         << F("app_id", idSchema), F("name", zOptional(zString)), F("preset_id", zOptional(idSchema)),
           F("branch", zOptional(zString)), F("build_command", zOptional(zString)),
           F("run_command", zOptional(zString)), F("envs", zOptional(zRecord("string"))),
           F("format", responseFormatSchema) >>,
         "PATCH", "/api/v1/apps/{app_id}", << "app_id" >>,
         "none", <<>>,
         TRUE, << IfTruthy("name", "name"), IfTruthy("preset_id", "preset_id"), IfTruthy("branch", "branch"),
           IfTruthy("build_cmd", "build_command"), IfTruthy("run_cmd", "run_command"),
           Entries(IfTruthy("envs", "envs")) >>),
    Tool("registerAppTools", "timeweb_delete_app", "delete", FALSE, TRUE,
         << F("app_id", idSchema), F("format", responseFormatSchema) >>,
         "DELETE", "/api/v1/apps/{app_id}", << "app_id" >>,
         "none", <<>>,
         FALSE, <<>>),
    Tool("registerAppTools", "timeweb_app_action", "action", FALSE, TRUE,
         << F("app_id", idSchema), F("action", zEnum(<<"start", "stop", "restart">>)),
           F("format", responseFormatSchema) >>,
         "POST", "/api/v1/apps/{app_id}/action/{action}", << "app_id", "action" >>,
         "none", <<>>,
         FALSE, <<>>),
    Tool("registerAppTools", "timeweb_get_app_logs", "get", FALSE, TRUE,
         << F("app_id", idSchema), F("format", responseFormatSchema) >>,
         "GET", "/api/v1/apps/{app_id}/logs", << "app_id" >>,
         "none", <<>>,
         FALSE, <<>>),
    Tool("registerAppTools", "timeweb_get_app_statistics", "get", FALSE, TRUE,
         << F("app_id", idSchema), F("format", responseFormatSchema) >>,
         "GET", "/api/v1/apps/{app_id}/statistics", << "app_id" >>,
         "none", <<>>,
         FALSE, <<>>),
    Tool("registerAppTools", "timeweb_deploy_app", "action", FALSE, TRUE,
         << F("app_id", idSchema), F("commit_id", zOptional(zString)), F("format", responseFormatSchema) >>,
         "POST", "/api/v1/apps/{app_id}/deploy", << "app_id" >>,
         "none", <<>>,
         TRUE, << IfTruthy("commit_id", "commit_id") >>),
    Tool("registerAppTools", "timeweb_list_app_deploys", "list", TRUE, TRUE,
         << F("app_id", idSchema), F("limit", paginationSchema.limit),
           F("offset", paginationSchema.offset), F("format", responseFormatSchema) >>,
         "GET", "/api/v1/apps/{app_id}/deploys", << "app_id" >>,
         "always", << AtMost(OrElse("limit", "limit", Num(DEFAULT_LIMIT)), MAX_LIMIT),
           OrElse("offset", "offset", Num(0)) >>,
         FALSE, <<>>),
    Tool("registerAppTools", "timeweb_get_deploy_logs", "get", FALSE, TRUE,
         << F("app_id", idSchema), F("deploy_id", idSchema), F("format", responseFormatSchema) >>,
         "GET", "/api/v1/apps/{app_id}/deploy/{deploy_id}/logs", << "app_id", "deploy_id" >>,
         "none", <<>>,
         FALSE, <<>>),
    Tool("registerAppTools", "timeweb_stop_deploy", "action", FALSE, TRUE,
         << F("app_id", idSchema), F("deploy_id", idSchema), F("format", responseFormatSchema) >>,
         "POST", "/api/v1/apps/{app_id}/deploy/{deploy_id}/stop", << "app_id", "deploy_id" >>,
         "none", <<>>,
         FALSE, <<>>)
  >>
\* what each handler does with the awaited response, in the order of the tool
\* tables
AllViews ==
  <<
    \* registerAccountTools(server) (src/src/tools/account.ts)
    View("timeweb_get_account_status", "status", "", "bare", "", <<>>,
         <<>>,
         <<>>, "none", "", ""),
    View("timeweb_get_finances", "finances", "", "bare", "", <<>>,
         <<>>,
         <<>>, "none", "", ""),
    View("timeweb_get_service_prices", "prices", "", "bare", "", <<>>,
         <<>>,
         <<>>, "none", "", ""),
    \* registerServerTools(server) (src/src/tools/servers.ts)
    View("timeweb_list_servers", "servers", "array", "wrapped", "servers", <<"total", "limit", "offset">>,
         <<"No servers found.">>,
         <<"Cloud Servers">>, "pagination", "\n\n", "formatServer"),
    View("timeweb_get_server", "server", "", "bare", "", <<>>,
         <<>>,
         <<>>, "none", "", ""),
    View("timeweb_create_server", "server", "", "bare", "", <<>>,
         <<>>,
         <<>>, "none", "", ""),
    View("timeweb_server_action", "", "", "ack", "", <<"success", "server_id", "action">>,
         <<>>,
         <<>>, "none", "", ""),
    View("timeweb_delete_server", "", "", "ack", "", <<"success", "deleted_server_id">>,
         <<>>,
         <<>>, "none", "", ""),
    View("timeweb_list_os", "os", "array", "bare", "", <<>>,
         <<"No OS images found.">>,
         <<"Available Operating Systems">>, "none", "\n", "inline"),
    View("timeweb_list_server_presets", "server_presets", "array", "bare", "", <<>>,
         <<"No presets found.">>,
         <<"Server Presets">>, "none", "\n\n", "inline"),
    View("timeweb_get_server_logs", "server_logs", "array", "wrapped", "logs", <<"server_id", "count">>,
         <<"No logs found for server ", "server_id", ".">>,
         <<"Server Logs (Server ", "server_id", ")">>, "count", "\n", "inline"),
    View("timeweb_get_server_statistics", "server_statistics", "", "wrapped", "statistics", <<"server_id">>,
         <<>>,
         <<>>, "none", "", ""),
    \* registerDatabaseTools(server) (src/unnamed/part_001)
    View("timeweb_list_databases", "dbs", "array", "wrapped", "databases", <<"total", "limit", "offset">>,
         <<"No databases found.">>,
         <<"Database Clusters">>, "pagination", "\n\n", "formatDatabase"),
    View("timeweb_get_database", "db", "", "bare", "", <<>>,
         <<>>,
         <<>>, "none", "", ""),
    View("timeweb_create_database", "db", "", "bare", "", <<>>,
         <<>>,
         <<>>, "none", "", ""),
    View("timeweb_delete_database", "", "", "ack", "", <<"success", "deleted_db_id">>,
         <<>>,
         <<>>, "none", "", ""),
    View("timeweb_list_database_presets", "databases_presets", "array", "bare", "", <<>>,
         <<"No database presets found.">>,
         <<"Database Presets">>, "none", "\n\n", "inline"),
    \* registerDatabaseTools(server) (src/unnamed/part_001)
    View("timeweb_list_databases", "dbs", "array", "wrapped", "databases", <<"total", "limit", "offset">>,
         <<"No databases found.">>,
         <<"Database Clusters">>, "pagination", "\n\n", "formatDatabase"),
    View("timeweb_get_database", "db", "", "bare", "", <<>>,
         <<>>,
         <<>>, "none", "", ""),
    View("timeweb_create_database", "db", "", "bare", "", <<>>,
         <<>>,
         <<>>, "none", "", ""),
    View("timeweb_delete_database", "", "", "ack", "", <<"success", "deleted_db_id">>,
         <<>>,
         <<>>, "none", "", ""),
    View("timeweb_list_database_presets", "databases_presets", "array", "bare", "", <<>>,
         <<"No database presets found.">>,
         <<"Database Presets">>, "none", "\n\n", "inline"),
    View("timeweb_list_database_backups", "backups", "array", "wrapped", "backups", <<"total", "limit", "offset", "db_id">>,
         <<"No backups found for database ", "db_id", ".">>,
         <<"Database Backups (Database ", "db_id", ")">>, "pagination", "\n\n", "inline"),
    View("timeweb_create_database_backup", "backup", "", "bare", "", <<>>,
         <<>>,
         <<>>, "none", "", ""),
    View("timeweb_delete_database_backup", "", "", "ack", "", <<"success", "deleted_backup_id", "db_id">>,
         <<>>,
         <<>>, "none", "", ""),
    View("timeweb_get_database_auto_backups", "auto_backups_settings", "", "wrapped", "settings", <<"db_id">>,
         <<>>,
         <<>>, "none", "", ""),
    \* registerDiskTools(server) (src/unnamed/part_001)
    View("timeweb_list_server_disks", "server_disks", "array", "wrapped", "disks", <<"server_id">>,
         <<"No disks found for server ", "server_id", ".">>,
         <<"Server Disks (Server ", "server_id", ")">>, "count", "\n\n", "formatDisk"),
    View("timeweb_get_server_disk", "server_disk", "", "bare", "", <<>>,
         <<>>,
         <<>>, "none", "", ""),
    View("timeweb_create_server_disk", "server_disk", "", "bare", "", <<>>,
         <<>>,
         <<>>, "none", "", ""),
    View("timeweb_update_server_disk", "server_disk", "", "bare", "", <<>>,
         <<>>,
         <<>>, "none", "", ""),
    View("timeweb_delete_server_disk", "", "", "ack", "", <<"success", "deleted_disk_id", "server_id">>,
         <<>>,
         <<>>, "none", "", ""),
    \* registerKubernetesTools(server) (src/src/tools/kubernetes.ts)
    View("timeweb_list_k8s_clusters", "clusters", "array", "wrapped", "clusters", <<"total", "limit", "offset">>,
         <<"No Kubernetes clusters found.">>,
         <<"Kubernetes Clusters">>, "pagination", "\n\n", "formatK8sCluster"),
    View("timeweb_get_k8s_cluster", "cluster", "", "bare", "", <<>>,
         <<>>,
         <<>>, "none", "", ""),
    View("timeweb_create_k8s_cluster", "cluster", "", "bare", "", <<>>,
         <<>>,
         <<>>, "none", "", ""),
    View("timeweb_delete_k8s_cluster", "", "", "ack", "", <<"success", "deleted_cluster_id">>,
         <<>>,
         <<>>, "none", "", ""),
    View("timeweb_get_kubeconfig", "", "", "none", "", <<>>,
         <<>>,
         <<>>, "none", "", ""),
    View("timeweb_list_k8s_versions", "k8s_versions", "array", "bare", "", <<>>,
         <<"No Kubernetes versions found.">>,
         <<"Available Kubernetes Versions">>, "none", "\n", "inline"),
    \* registerStorageTools(server) (src/unnamed/part_002)
    View("timeweb_list_s3_storages", "buckets", "array", "wrapped", "storages", <<"total", "limit", "offset">>,
         <<"No S3 storages found.">>,
         <<"S3 Object Storages">>, "pagination", "\n\n", "formatS3Storage"),
    View("timeweb_create_s3_storage", "bucket", "", "bare", "", <<>>,
         <<>>,
         <<>>, "none", "", ""),
    View("timeweb_delete_s3_storage", "", "", "ack", "", <<"success", "deleted_bucket_id">>,
         <<>>,
         <<>>, "none", "", ""),
    View("timeweb_list_s3_presets", "storages_presets", "array", "bare", "", <<>>,
         <<"No S3 storage presets found.">>,
         <<"S3 Storage Presets">>, "none", "\n\n", "inline"),
    \* registerDomainTools(server) (src/unnamed/part_006)
    View("timeweb_list_domains", "domains", "array", "wrapped", "domains", <<"total", "limit", "offset">>,
         <<"No domains found.">>,
         <<"Domains">>, "pagination", "\n\n", "formatDomain"),
    View("timeweb_get_domain", "domain", "", "bare", "", <<>>,
         <<>>,
         <<>>, "none", "", ""),
    View("timeweb_check_domain", "", "", "response", "", <<>>,
         <<>>,
         <<>>, "none", "", ""),
    View("timeweb_list_dns_records", "dns_records", "array", "wrapped", "records", <<"total", "limit", "offset">>,
         <<"No DNS records found for ", "fqdn", ".">>,
         <<"DNS Records for ", "fqdn", "">>, "pagination", "\n", "formatDnsRecord"),
    View("timeweb_create_dns_record", "dns_record", "", "bare", "", <<>>,
         <<>>,
         <<>>, "none", "", ""),
    View("timeweb_delete_dns_record", "", "", "ack", "", <<"success", "deleted_record_id">>,
         <<>>,
         <<>>, "none", "", ""),
    \* registerProjectTools(server) (src/unnamed/part_006)
    View("timeweb_list_projects", "projects", "array", "wrapped", "projects", <<"total", "limit", "offset">>,
         <<"No projects found.">>,
         <<"Projects">>, "pagination", "\n\n", "formatProject"),
    View("timeweb_get_project", "project", "", "bare", "", <<>>,
         <<>>,
         <<>>, "none", "", ""),
    View("timeweb_create_project", "project", "", "bare", "", <<>>,
         <<>>,
         <<>>, "none", "", ""),
    View("timeweb_delete_project", "", "", "ack", "", <<"success", "deleted_project_id">>,
         <<>>,
         <<>>, "none", "", ""),
    \* registerSshKeyTools(server) (src/unnamed/part_003)
    View("timeweb_list_ssh_keys", "ssh_keys", "array", "wrapped", "ssh_keys", <<"total", "limit", "offset">>,
         <<"No SSH keys found.">>,
         <<"SSH Keys">>, "pagination", "\n\n", "formatSshKey"),
    View("timeweb_get_ssh_key", "ssh_key", "", "bare", "", <<>>,
         <<>>,
         <<>>, "none", "", ""),
    View("timeweb_create_ssh_key", "ssh_key", "", "bare", "", <<>>,
         <<>>,
         <<>>, "none", "", ""),
    View("timeweb_delete_ssh_key", "", "", "ack", "", <<"success", "deleted_ssh_key_id">>,
         <<>>,
         <<>>, "none", "", ""),
    View("timeweb_add_ssh_key_to_server", "", "", "ack", "", <<"success", "server_id", "ssh_key_id">>,
         <<>>,
         <<>>, "none", "", ""),
    \* registerFloatingIpTools(server) (src/src/tools/floating-ips.ts)
    View("timeweb_list_floating_ips", "floating_ips", "array", "wrapped", "floating_ips", <<"total", "limit", "offset">>,
         <<"No floating IPs found.">>,
         <<"Floating IP Addresses">>, "pagination", "\n\n", "formatFloatingIp"),
    View("timeweb_get_floating_ip", "floating_ip", "", "bare", "", <<>>,
         <<>>,
         <<>>, "none", "", ""),
    View("timeweb_create_floating_ip", "floating_ip", "", "bare", "", <<>>,
         <<>>,
         <<>>, "none", "", ""),
    View("timeweb_delete_floating_ip", "", "", "ack", "", <<"success", "deleted_floating_ip_id">>,
         <<>>,
         <<>>, "none", "", ""),
    View("timeweb_bind_floating_ip", "", "", "ack", "", <<"success", "floating_ip_id", "resource_type", "resource_id">>,
         <<>>,
         <<>>, "none", "", ""),
    View("timeweb_unbind_floating_ip", "", "", "ack", "", <<"success", "floating_ip_id">>,
         <<>>,
         <<>>, "none", "", ""),
    \* registerLocationTools(server) (src/src/tools/locations.ts)
    View("timeweb_list_locations", "locations", "array", "bare", "", <<>>,
         <<"No locations found.">>,
         <<"Available Datacenter Locations">>, "none", "\n\n", "formatLocation"),
    \* registerVpcTools(server) (src/src/tools/vpc.ts)
    View("timeweb_list_vpcs", "vpcs", "array", "wrapped", "vpcs", <<"total", "limit", "offset">>,
         <<"No VPCs found.">>,
         <<"Virtual Private Clouds (VPCs)">>, "pagination", "\n\n", "formatVpc"),
    View("timeweb_get_vpc", "vpc", "", "bare", "", <<>>,
         <<>>,
         <<>>, "none", "", ""),
    View("timeweb_create_vpc", "vpc", "", "bare", "", <<>>,
         <<>>,
         <<>>, "none", "", ""),
    View("timeweb_update_vpc", "vpc", "", "bare", "", <<>>,
         <<>>,
         <<>>, "none", "", ""),
    View("timeweb_delete_vpc", "", "", "ack", "", <<"success", "deleted_vpc_id">>,
         <<>>,
         <<>>, "none", "", ""),
    View("timeweb_list_vpc_services", "services", "array", "wrapped", "services", <<"vpc_id">>,
         <<"No services attached to VPC ", "vpc_id", ".">>,
         <<"VPC Services (VPC ", "vpc_id", ")">>, "count", "\n", "formatVpcService"),
    \* registerFirewallTools(server) (src/src/tools/firewall.ts)
    View("timeweb_list_firewall_groups", "groups", "array", "wrapped", "groups", <<"total", "limit", "offset">>,
         <<"No firewall groups found.">>,
         <<"Firewall Groups">>, "pagination", "\n\n", "formatFirewallGroup"),
    View("timeweb_get_firewall_group", "group", "", "bare", "", <<>>,
         <<>>,
         <<>>, "none", "", ""),
    View("timeweb_create_firewall_group", "group", "", "bare", "", <<>>,
         <<>>,
         <<>>, "none", "", ""),
    View("timeweb_update_firewall_group", "group", "", "bare", "", <<>>,
         <<>>,
         <<>>, "none", "", ""),
    View("timeweb_delete_firewall_group", "", "", "ack", "", <<"success", "deleted_group_id">>,
         <<>>,
         <<>>, "none", "", ""),
    View("timeweb_list_firewall_rules", "rules", "array", "wrapped", "rules", <<"total", "limit", "offset", "group_id">>,
         <<"No firewall rules found in group ", "group_id", ".">>,
         <<"Firewall Rules (Group ", "group_id", ")">>, "pagination", "\n", "formatFirewallRule"),
    View("timeweb_create_firewall_rule", "rule", "", "bare", "", <<>>,
         <<>>,
         <<>>, "none", "", ""),
    View("timeweb_delete_firewall_rule", "", "", "ack", "", <<"success", "deleted_rule_id", "group_id">>,
         <<>>,
         <<>>, "none", "", ""),
    \* registerBalancerTools(server) (src/unnamed/part_004)
    View("timeweb_list_balancers", "balancers", "array", "wrapped", "balancers", <<"total", "limit", "offset">>,
         <<"No load balancers found.">>,
         <<"Load Balancers">>, "pagination", "\n\n", "formatBalancer"),
    View("timeweb_get_balancer", "balancer", "", "bare", "", <<>>,
         <<>>,
         <<>>, "none", "", ""),
    View("timeweb_create_balancer", "balancer", "", "bare", "", <<>>,
         <<>>,
         <<>>, "none", "", ""),
    View("timeweb_update_balancer", "balancer", "", "bare", "", <<>>,
         <<>>,
         <<>>, "none", "", ""),
    View("timeweb_delete_balancer", "", "", "ack", "", <<"success", "deleted_balancer_id">>,
         <<>>,
         <<>>, "none", "", ""),
    View("timeweb_list_balancer_rules", "rules", "array", "wrapped", "rules", <<"balancer_id">>,
         <<"No rules found for balancer ", "balancer_id", ".">>,
         <<"Balancer Rules (Balancer ", "balancer_id", ")">>, "none", "\n", "formatBalancerRule"),
    View("timeweb_create_balancer_rule", "rule", "", "bare", "", <<>>,
         <<>>,
         <<>>, "none", "", ""),
    View("timeweb_list_balancer_presets", "balancers_presets", "array", "bare", "", <<>>,
         <<"No balancer presets found.">>,
         <<"Load Balancer Presets">>, "none", "\n\n", "formatBalancerPreset"),
    \* registerImageTools(server) (src/unnamed/part_005)
    View("timeweb_list_images", "images", "array", "wrapped", "images", <<"total", "limit", "offset">>,
         <<"No custom images found.">>,
         <<"Custom OS Images">>, "pagination", "\n\n", "formatImage"),
    View("timeweb_get_image", "image", "", "bare", "", <<>>,
         <<>>,
         <<>>, "none", "", ""),
    View("timeweb_create_image", "image", "", "bare", "", <<>>,
         <<>>,
         <<>>, "none", "", ""),
    View("timeweb_update_image", "image", "", "bare", "", <<>>,
         <<>>,
         <<>>, "none", "", ""),
    View("timeweb_delete_image", "", "", "ack", "", <<"success", "deleted_image_id">>,
         <<>>,
         <<>>, "none", "", ""),
    \* registerAppTools(server) (src/unnamed/part_005)
    View("timeweb_list_apps", "apps", "array", "wrapped", "apps", <<"total", "limit", "offset">>,
         <<"No applications found.">>,
         <<"PaaS Applications">>, "pagination", "\n\n", "formatApp"),
    View("timeweb_get_app", "app", "", "bare", "", <<>>,
         <<>>,
         <<>>, "none", "", ""),
    View("timeweb_create_app", "app", "", "bare", "", <<>>,
         <<>>,
         <<>>, "none", "", ""),
    View("timeweb_update_app", "app", "", "bare", "", <<>>,
         <<>>,
         <<>>, "none", "", ""),
    View("timeweb_delete_app", "", "", "ack", "", <<"success", "deleted_app_id">>,
         <<>>,
         <<>>, "none", "", ""),
    View("timeweb_app_action", "", "", "ack", "", <<"success", "app_id", "action">>,
         <<>>,
         <<>>, "none", "", ""),
    View("timeweb_get_app_logs", "logs", "string", "wrapped", "logs", <<"app_id">>,
         <<>>,
         <<>>, "none", "", ""),
    View("timeweb_get_app_statistics", "statistics", "", "wrapped", "statistics", <<"app_id">>,
         <<>>,
         <<>>, "none", "", ""),
    View("timeweb_deploy_app", "deploy", "", "bare", "", <<>>,
         <<>>,
         <<>>, "none", "", ""),
    View("timeweb_list_app_deploys", "deploys", "array", "wrapped", "deploys", <<"total", "limit", "offset", "app_id">>,
         <<"No deployments found for application ", "app_id", ".">>,
         <<"Deployment History (App ", "app_id", ")">>, "pagination", "\n", "formatDeploy"),
    View("timeweb_get_deploy_logs", "logs", "string", "wrapped", "logs", <<"app_id", "deploy_id">>,
         <<>>,
         <<>>, "none", "", ""),
    View("timeweb_stop_deploy", "", "", "ack", "", <<"success", "app_id", "deploy_id", "action">>,
         <<>>,
         <<>>, "none", "", "")
  >>


\* every server.tool registration of the source; a tool is known by its index
AllTools ==
  registerAccountTools \o registerServerTools \o registerDatabaseToolsShort
    \o registerDatabaseTools \o registerDiskTools \o registerKubernetesTools
    \o registerStorageTools \o registerDomainTools \o registerProjectTools
    \o registerSshKeyTools \o registerFloatingIpTools \o registerLocationTools
    \o registerVpcTools \o registerFirewallTools \o registerBalancerTools
    \o registerImageTools \o registerAppTools

ToolIds == DOMAIN AllTools

\* the handler registered under a tool's name
ViewOf(t) == AllViews[CHOOSE i \in ToolIds : AllViews[i].name = t.name]

\* the tools one register function adds to the server, in order
RegisteredBy(mod) ==
  LET Test(i) == AllTools[i].module = mod
  IN  SelectSeq([i \in ToolIds |-> i], Test)

\* the two copies of tools/databases.ts found in the source
DatabaseModules == {"registerDatabaseToolsShort", "registerDatabaseTools"}

\* a main() that registers both copies of the database tools
MainRegistersBothCopies(db) ==
  << "registerAccountTools", "registerServerTools", "registerDatabaseToolsShort",
     "registerDatabaseTools", "registerKubernetesTools",
     "registerStorageTools", "registerDomainTools", "registerSshKeyTools",
     "registerFloatingIpTools", "registerLocationTools", "registerProjectTools" >>

\* main(): the register calls, in order; db is the copy of databases.ts in use
MainRegisters(db) ==
  << "registerAccountTools", "registerServerTools", db, "registerKubernetesTools",
     "registerStorageTools", "registerDomainTools", "registerSshKeyTools",
     "registerFloatingIpTools", "registerLocationTools", "registerProjectTools" >>

FieldNames(t) == {t.schema[i].name : i \in DOMAIN t.schema}
Required(t) == {t.schema[i].name : i \in {j \in DOMAIN t.schema : t.schema[j].z.req}}
Optionals(t) == FieldNames(t) \ Required(t)
DescriptorOf(t, f) == t.schema[CHOOSE i \in DOMAIN t.schema : t.schema[i].name = f].z

-----------------------------------------------------------------------------
(* Argument mappings handed to a tool by the calling agent *)

\* the values tried for a field: both sides of every bound of its descriptor,
\* a falsy and a truthy value, a non-integer, a value of the wrong type
Probes(d) ==
  CASE d.ty = "number" ->
         {Num(0), Num(1), Num(-1), Frac(1), Str("1")}
           \cup (IF d.min # <<>> THEN {Num(d.min[1] - 1), Num(d.min[1])} ELSE {})
           \cup (IF d.max # <<>> THEN {Num(d.max[1]), Num(d.max[1] + 1)} ELSE {})
    [] d.ty = "string" -> {Str(""), Str("a"), Num(1)}
    [] d.ty = "boolean" -> {Bool(TRUE), Bool(FALSE), Str("true")}
    [] d.ty = "enum" -> {Str(d.vals[i]) : i \in DOMAIN d.vals} \cup {Str("bogus"), Str("")}
    [] d.ty = "array" -> {Arr(0, d.elem), Arr(2, d.elem), Arr(1, "mixed"), Str("a")}
    [] d.ty = "record" -> {Obj(0, d.elem), Obj(2, d.elem), Obj(1, "mixed"), Str("a")}

\* a value the descriptor accepts
Sample(d) ==
  CASE d.ty = "number" -> IF d.min # <<>> /\ d.min[1] > 1 THEN Num(d.min[1]) ELSE Num(1)
    [] d.ty = "string" -> Str("a")
    [] d.ty = "boolean" -> Bool(TRUE)
    [] d.ty = "enum" -> Str(d.vals[1])
    [] d.ty = "array" -> Arr(1, d.elem)
    [] d.ty = "record" -> Obj(1, d.elem)

\* the minimal valid mapping: every required field, no optional one
BaseArgs(t) ==
  [f \in FieldNames(t) |->
     IF DescriptorOf(t, f).req THEN Sample(DescriptorOf(t, f)) ELSE Undefined]

RECURSIVE Vary(_, _, _, _)
Vary(schema, args, from, k) ==
  IF k = 0 \/ from > Len(schema) THEN {args}
  ELSE {args} \cup
       UNION { UNION { Vary(schema, [args EXCEPT ![schema[i].name] = v], i + 1, k - 1)
                       : v \in Probes(schema[i].z) \cup {Undefined} }
               : i \in from..Len(schema) }

ArgsOf(t) == Vary(t.schema, BaseArgs(t), 1, MaxVaried)

-----------------------------------------------------------------------------
(* services/api.ts *)

\* let apiClient = null
NoClient == [baseURL |-> "", timeout |-> 0, authorization |-> ""]

\* axios.create({ baseURL, timeout, headers: { Authorization: `Bearer ${token}` } });
\* token is the environment's value: <<>> when unset, else <<string>>
initializeApiClient(token) ==
  [baseURL |-> API_BASE_URL, timeout |-> REQUEST_TIMEOUT,
   authorization |-> "Bearer " \o (IF token = <<>> THEN "undefined" ELSE token[1])]

\* failure values: cls is the class of the thrown value ("AxiosError", "Error",
\* "value" for a thrown non-Error, "opaque" for a thrown non-Error that cannot
\* be converted to a string); an AxiosError may carry a response (status,
\* data.message) or an error code; message is error.message, or String(error)
\* for a thrown value that is not an Error
Failure(cls, hasResponse, status, form, parts, code, message) ==
  [cls |-> cls, hasResponse |-> hasResponse, status |-> status,
   msgForm |-> form, msgParts |-> parts, code |-> code, message |-> message]

NoFailure == Failure("none", FALSE, 0, "none", <<>>, "", "")

NotInitialized ==
  Failure("Error", FALSE, 0, "none", <<>>, "",
          "API client not initialized. Set TIMEWEB_CLOUD_TOKEN environment variable.")

RECURSIVE Join(_, _)
Join(parts, sep) ==
  IF parts = <<>> THEN ""
  ELSE IF Len(parts) = 1 THEN parts[1]
  ELSE parts[1] \o sep \o Join(Tail(parts), sep)

\* the `message` local of handleApiError
ProviderMessage(error) ==
  CASE error.msgForm = "string" -> IF error.msgParts[1] # "" THEN error.msgParts[1] ELSE ""
    [] error.msgForm = "array" -> Join(error.msgParts, ", ")
    [] OTHER -> ""

\* what a template literal or String() makes of the thrown value when it is
\* not usable as a string (an object without toString, such as
\* Object.create(null)): no string, a TypeError is thrown
ThrowsTypeError == <<"TypeError: Cannot convert object to primitive value">>

\* a status switch that lets the provider word the rate-limit message too
StatusMessageEcho(status, message) ==
  LET Or(d) == IF message # "" THEN message ELSE d
  IN  CASE status = 400 ->
             <<"Error: ", "Bad request. ", Or("Please check your parameters.")>>
        [] status = 401 ->
             <<"Error: ", "Authentication failed. ", "Please check your API token.">>
        [] status = 403 ->
             <<"Error: ", "Permission denied. ", Or("You don't have access to this resource.")>>
        [] status = 404 ->
             <<"Error: ", "Resource not found. ", Or("Please check the ID is correct.")>>
        [] status = 409 ->
             <<"Error: ", "Conflict. ", Or("The request conflicts with the current state.")>>
        [] status = 423 ->
             <<"Error: ", "Resource locked. ", Or("The resource is locked from this operation.")>>
        [] status = 429 ->
             <<"Error: ", "Rate limit exceeded. ", Or("Please wait before making more requests.")>>
        [] status = 500 ->
             <<"Error: ", "Internal server error. ", Or("Please try again later or contact support.")>>
        [] OTHER ->
             <<"Error: ", "API request failed with status " \o ToString(status) \o ". ", message>>

\* switch (status): the returned string as the pieces of its template literal,
\* the "Error: " prefix, the headline and the detail
StatusMessage(status, message) ==
  LET Or(d) == IF message # "" THEN message ELSE d
  IN  CASE status = 400 ->
             <<"Error: ", "Bad request. ", Or("Please check your parameters.")>>
        [] status = 401 ->
             <<"Error: ", "Authentication failed. ", "Please check your API token.">>
        [] status = 403 ->
             <<"Error: ", "Permission denied. ", Or("You don't have access to this resource.")>>
        [] status = 404 ->
             <<"Error: ", "Resource not found. ", Or("Please check the ID is correct.")>>
        [] status = 409 ->
             <<"Error: ", "Conflict. ", Or("The request conflicts with the current state.")>>
        [] status = 423 ->
             <<"Error: ", "Resource locked. ", Or("The resource is locked from this operation.")>>
        [] status = 429 ->
             <<"Error: ", "Rate limit exceeded. ", "Please wait before making more requests.">>
        [] status = 500 ->
             <<"Error: ", "Internal server error. ", Or("Please try again later or contact support.")>>
        [] OTHER ->
             <<"Error: ", "API request failed with status " \o ToString(status) \o ". ", message>>

handleApiError(error) ==
  IF error.cls = "AxiosError" /\ error.hasResponse THEN
    StatusMessage(error.status, ProviderMessage(error))
  ELSE IF error.cls = "AxiosError" /\ error.code = "ECONNABORTED" THEN
    <<"Error: ", "Request timed out. ", "Please try again.">>
  ELSE IF error.cls = "AxiosError" /\ error.code = "ENOTFOUND" THEN
    <<"Error: ", "Could not connect to Timeweb Cloud API. ", "Check your network connection.">>
  ELSE IF error.cls = "opaque" THEN
    ThrowsTypeError
  ELSE
    <<"Error: ", "Unexpected error occurred: ", error.message>>

\* the string the pieces spell
Text(pieces) == Join(pieces, "")

\* page count by truncating division
buildPaginationResponseFloor(total, limit, offset) ==
  LET currentPage == (offset \div limit) + 1
      totalPages == total \div limit
      hasMore == offset + limit < total
      last == IF offset + limit < total THEN offset + limit ELSE total
  IN  << "Showing ", ToString(offset + 1), "-", ToString(last), " of ", ToString(total),
         " items (Page ", ToString(currentPage), "/", ToString(totalPages), ")" >>
        \o (IF hasMore THEN <<"\n*Use offset parameter to see more results.*">> ELSE <<>>)

\* the summary line, as the pieces of its template literal
buildPaginationResponse(total, limit, offset) ==
  LET currentPage == (offset \div limit) + 1
      totalPages == (total + limit - 1) \div limit
      hasMore == offset + limit < total
      last == IF offset + limit < total THEN offset + limit ELSE total
  IN  << "Showing ", ToString(offset + 1), "-", ToString(last), " of ", ToString(total),
         " items (Page ", ToString(currentPage), "/", ToString(totalPages), ")" >>
        \o (IF hasMore THEN <<"\n*Use offset parameter to see more results.*">> ELSE <<>>)

-----------------------------------------------------------------------------
(* formatBytes.  A byte count is written in base k, most significant digit  *)
(* first and without leading zeros; <<>> is 0.                             *)

\* const k = 1024
kUnit == 1024

\* const sizes = ["B", "KB", "MB", "GB", "TB"]
sizes == <<"B", "KB", "MB", "GB", "TB">>

\* how far below k^e a count may lie and still have the double
\* Math.log(bytes) / Math.log(k) equal to e.  The quotient of log_k(k^e - d)
\* is e - d / (k^e * ln k); below 5 the doubles are 2^-50 apart, and
\* d / (k^5 * ln k) stays under half of that for d <= 3, so the quotient
\* rounds to 5.  Below k, k^2, k^3 and k^4 the first count already falls on a
\* smaller double.
LogSlack(e) == IF e = 5 THEN 3 ELSE 0

\* const i = Math.floor(Math.log(bytes) / Math.log(k))
LogIndex(bytes) ==
  LET n == Len(bytes)
  IN  IF /\ \A j \in 1..(n - 1) : bytes[j] = kUnit - 1
         /\ bytes[n] >= kUnit - LogSlack(n)
        THEN n
        ELSE n - 1

\* floor of 100 * 0.d1 d2 ... dn (base k)
RECURSIVE Hundredths(_)
Hundredths(digits) ==
  IF digits = <<>> THEN 0
  ELSE (100 * Head(digits) + Hundredths(Tail(digits))) \div kUnit

\* (bytes / Math.pow(k, i)).toFixed(2), in hundredths: the quotient is exact
\* in a double, and toFixed takes the nearest hundredth, the larger of two
RECURSIVE Whole(_)
Whole(digits) == IF digits = <<>> THEN 0 ELSE Whole(SubSeq(digits, 1, Len(digits) - 1)) * kUnit + digits[Len(digits)]

ToFixed2(bytes, i) ==
  LET n == Len(bytes)
      whole == Whole(SubSeq(bytes, 1, n - i))
      frac == SubSeq(bytes, n - i + 1, n)
  IN  100 * whole +
        (IF frac = <<>> THEN 0
         ELSE (100 * Head(frac) + kUnit \div 2 + Hundredths(Tail(frac))) \div kUnit)

\* parseFloat("w.ff") + "": trailing zeros of the fraction are dropped
NumberText(h) ==
  LET w == h \div 100
      f == h % 100
  IN  IF f = 0 THEN ToString(w)
      ELSE IF f % 10 = 0 THEN ToString(w) \o "." \o ToString(f \div 10)
      ELSE ToString(w) \o "." \o (IF f < 10 THEN "0" ELSE "") \o ToString(f)

\* the pieces of the returned string; sizes[i] past the end of the array is
\* undefined, which the concatenation prints as "undefined"
formatBytes(bytes) ==
  IF bytes = <<>> THEN <<"0", " ", "B">>
  ELSE LET i == LogIndex(bytes)
       IN  << NumberText(ToFixed2(bytes, i)), " ",
              IF i + 1 \in DOMAIN sizes THEN sizes[i + 1] ELSE "undefined" >>

-----------------------------------------------------------------------------
(* One tool handler: request assembly and rendering *)

NoObject == <<>>

\* the arguments of the handler's makeApiRequest(method, endpoint, params, data)
BuildRequest(t, args) ==
  LET params == Assemble(t.query, args)
  IN  [method |-> t.method, path |-> t.path,
       pathArgs |-> [i \in DOMAIN t.pathParams |-> args[t.pathParams[i]]],
       query |-> CASE t.queryMode = "always" -> <<params>>
                   [] t.queryMode = "nonempty" ->
                        IF DOMAIN params # {} THEN <<params>> ELSE NoObject
                   [] OTHER -> NoObject,
       body |-> IF t.hasBody THEN <<Assemble(t.body, args)>> ELSE NoObject]

NoRequest == [method |-> "", path |-> "", pathArgs |-> <<>>, query |-> NoObject, body |-> NoObject]

\* what the backend answers with: count is the length of the item array of a
\* list answer, total is meta.total (<<>> when meta or meta.total is missing)
Payload(count, total) == [count |-> count, total |-> total]

\* a handler with an empty-array branch receives arrays of every length
Payloads(t) ==
  IF t.paginated
    THEN {Payload(c, m) : c \in 0..MaxItems, m \in {<<>>} \cup {<<k>> : k \in 0..MaxTotal}}
    ELSE IF ViewOf(t).empty # <<>> THEN {Payload(c, <<>>) : c \in 0..MaxItems}
    ELSE {Payload(1, <<>>)}

\* a handler whose output mode defaults to the structured one
FormatOfJsonDefault(t, args) ==
  IF "format" \in FieldNames(t) /\ Truthy(args["format"]) THEN args["format"].s ELSE "json"

\* const format = args.format || ResponseFormat.MARKDOWN
FormatOf(t, args) ==
  IF "format" \in FieldNames(t) /\ Truthy(args["format"]) THEN args["format"].s ELSE "markdown"

\* const limit = Math.min(args.limit || DEFAULT_LIMIT, MAX_LIMIT)
LimitOf(args) ==
  LET l == IF Truthy(args["limit"]) THEN args["limit"].n \div 2 ELSE DEFAULT_LIMIT
  IN  IF l < MAX_LIMIT THEN l ELSE MAX_LIMIT

\* const offset = args.offset || 0
OffsetOf(args) == IF Truthy(args["offset"]) THEN args["offset"].n \div 2 ELSE 0

\* const total = response.meta?.total || items.length
TotalOf(payload) ==
  IF payload.total # <<>> /\ payload.total[1] # 0 THEN payload.total[1] ELSE payload.count

\* what a template literal makes of an argument
ArgText(v) ==
  CASE v.ty = "number" ->
         IF v.n % 2 = 0 THEN ToString(v.n \div 2) ELSE ToString(v.n \div 2) \o ".5"
    [] v.ty = "string" -> v.s
    [] v.ty = "boolean" -> IF v.n = 1 THEN "true" ELSE "false"
    [] OTHER -> v.ty

\* a sentence or heading with its ${...} holes filled from the arguments
Fill(pieces, args) ==
  [i \in DOMAIN pieces |-> IF i % 2 = 1 THEN pieces[i] ELSE ArgText(args[pieces[i]])]

\* the text the formatter fmt makes of the k-th item of the page
ItemText(fmt, k) == fmt \o "(" \o ToString(k) \o ")"

\* items.map(fmt).join(sep), for a page of count items
Joined(fmt, sep, count) ==
  [i \in 1..(2 * count - 1) |-> IF i % 2 = 1 THEN ItemText(fmt, (i + 1) \div 2) ELSE sep]

\* a list template without the summary line
DocumentWithoutSummary(v, args, count, total, limit, offset) ==
  <<"# ">> \o Fill(v.heading, args) \o <<"\n\n">> \o Joined(v.fmt, v.sep, count)

\* `# ${heading}\n\n${buildPaginationResponse(total, limit, offset)}\n\n${items.map(fmt).join(sep)}`
Document(v, args, count, total, limit, offset) ==
  <<"# ">> \o Fill(v.heading, args) \o <<"\n\n">>
    \o buildPaginationResponse(total, limit, offset) \o <<"\n\n">>
    \o Joined(v.fmt, v.sep, count)

\* the value given to JSON.stringify(..., null, 2): the top-level keys of the
\* object literal the handler builds (none when a value of the response is
\* printed as is) and the response key whose value is printed ("*" for the
\* whole response, "" for none)
Json(v) ==
  [keys |-> CASE v.shape = "wrapped" -> <<v.under>> \o v.extras
              [] v.shape = "ack" -> v.extras
              [] OTHER -> <<>>,
   value |-> CASE v.shape \in {"bare", "wrapped"} -> v.key
               [] v.shape = "response" -> "*"
               [] OTHER -> ""]

NoJson == [keys |-> <<>>, value |-> ""]

Rendered(mode, empty, items, total, limit, offset, summary, json, text) ==
  [mode |-> mode, empty |-> empty, items |-> items, total |-> total,
   limit |-> limit, offset |-> offset, summary |-> summary, json |-> json, text |-> text]

NoResult == Rendered("none", FALSE, 0, 0, 0, 0, <<>>, NoJson, <<>>)

\* a handler without the empty-array branch: an empty page goes through the
\* list template
RenderWithoutEmptyBranch(t, args, payload) ==
  LET v == ViewOf(t)
      json == t.jsonBranch /\ FormatOf(t, args) = "json"
  IN  IF t.paginated THEN
        LET limit == LimitOf(args)
            offset == OffsetOf(args)
            total == TotalOf(payload)
        IN  IF json
              THEN Rendered("json", FALSE, payload.count, total, limit, offset, <<>>, Json(v), <<>>)
            ELSE Rendered("markdown", FALSE, payload.count, total, limit, offset,
                          buildPaginationResponse(total, limit, offset), NoJson,
                          Document(v, args, payload.count, total, limit, offset))
      ELSE IF json
        THEN Rendered("json", FALSE, payload.count, 0, 0, 0, <<>>, Json(v), <<>>)
      ELSE Rendered("markdown", FALSE, payload.count, 0, 0, 0, <<>>, NoJson, <<>>)

\* the handler's statements after the await, up to its return; the rendered
\* text is kept for the empty-array sentence and for the paginated lists
Render(t, args, payload) ==
  LET v == ViewOf(t)
      json == t.jsonBranch /\ FormatOf(t, args) = "json"
  IN  IF t.paginated THEN
        LET limit == LimitOf(args)
            offset == OffsetOf(args)
            total == TotalOf(payload)
        IN  IF json
              THEN Rendered("json", FALSE, payload.count, total, limit, offset, <<>>, Json(v), <<>>)
            ELSE IF payload.count = 0
              THEN Rendered("markdown", TRUE, 0, 0, 0, 0, <<>>, NoJson, Fill(v.empty, args))
            ELSE Rendered("markdown", FALSE, payload.count, total, limit, offset,
                          buildPaginationResponse(total, limit, offset), NoJson,
                          Document(v, args, payload.count, total, limit, offset))
      ELSE IF json
        THEN Rendered("json", FALSE, payload.count, 0, 0, 0, <<>>, Json(v), <<>>)
      ELSE IF v.empty # <<>> /\ payload.count = 0
        THEN Rendered("markdown", TRUE, 0, 0, 0, 0, <<>>, NoJson, Fill(v.empty, args))
      ELSE Rendered("markdown", FALSE, payload.count, 0, 0, 0, <<>>, NoJson, <<>>)

-----------------------------------------------------------------------------
(* Failures of the HTTP call *)

Statuses == {400, 401, 403, 404, 409, 423, 429, 500, 304, 422, 502, 503}

\* response.data.message: missing, a string, or an array of strings
ProviderMessages ==
  { <<"none", <<>>>>, <<"string", <<"">>>>, <<"string", <<"db not found">>>>,
    <<"string", <<"name is required, os_id must be a number">>>>,
    <<"array", <<>>>>, <<"array", <<"name is required">>>>,
    <<"array", <<"name is required", "os_id must be a number">>>> }

HttpFailures ==
  { Failure("AxiosError", TRUE, st, m[1], m[2], c, "Request failed with status code " \o ToString(st))
    : st \in Statuses, m \in ProviderMessages, c \in {"ERR_BAD_REQUEST", "ERR_BAD_RESPONSE"} }

\* error codes axios reports when no response arrived
TransportCodes ==
  { "ECONNABORTED", "ETIMEDOUT", "ENOTFOUND", "EAI_AGAIN", "ECONNREFUSED",
    "ENETUNREACH", "ECONNRESET", "ERR_NETWORK" }

TransportFailures ==
  { Failure("AxiosError", FALSE, 0, "none", <<>>, c, "request failed: " \o c) : c \in TransportCodes }

\* anything else a caller may hand to handleApiError
OtherFailures ==
  { NotInitialized,
    Failure("Error", FALSE, 0, "none", <<>>, "", ""),
    Failure("Error", FALSE, 0, "none", <<>>, "", "Cannot read properties of undefined"),
    Failure("Error", FALSE, 404, "none", <<>>, "ENOTFOUND", "lookalike"),
    Failure("value", FALSE, 0, "none", <<>>, "", "boom"),
    Failure("value", FALSE, 0, "none", <<>>, "", "undefined"),
    Failure("opaque", FALSE, 0, "none", <<>>, "", "") }

Failures == HttpFailures \cup TransportFailures \cup OtherFailures

\* the failures a served call is settled with
ServedFailures ==
  { e \in HttpFailures : /\ e.status \in {404, 429, 502}
                         /\ e.msgParts \in {<<>>, <<"db not found">>}
                         /\ e.code = "ERR_BAD_RESPONSE" }
    \cup { e \in TransportFailures : e.code \in {"ECONNABORTED", "ECONNREFUSED"} }

-----------------------------------------------------------------------------
(* State *)

VARIABLES
  pc,          \* where main() stands
  env,         \* process.env.TIMEWEB_CLOUD_TOKEN: <<>> when unset, else <<value>>
  databases,   \* which copy of tools/databases.ts the build links
  apiClient,   \* the module variable of services/api.ts
  registered,  \* tools registered on the McpServer, in order
  nreg,        \* register calls main() has made
  call,        \* the tool invocation in progress
  peer,        \* a second tool invocation in progress at the same time
  probe        \* a direct application of a helper of services/api.ts

vars == <<pc, env, databases, apiClient, registered, nreg, call, peer, probe>>

Outcome(kind, fields, error, result) ==
  [kind |-> kind, fields |-> fields, error |-> error, result |-> result]

NoOutcome == Outcome("none", {}, NoFailure, NoResult)

\* how the awaited client.request settled
Reply(state, payload, error) == [state |-> state, payload |-> payload, error |-> error]

NoReply == Reply("none", Payload(0, <<>>), NoFailure)

\* calls counts makeApiRequest entries, sent counts client.request entries
Call(phase, tool, args, calls, sent, request, reply, outcome) ==
  [phase |-> phase, tool |-> tool, args |-> args, calls |-> calls, sent |-> sent,
   request |-> request, reply |-> reply, outcome |-> outcome]

Idle == Call("idle", 0, <<>>, 0, 0, NoRequest, NoReply, NoOutcome)

Probe(fn, error, total, limit, offset, out) ==
  [fn |-> fn, error |-> error, total |-> total, limit |-> limit, offset |-> offset, out |-> out]

NoProbe == Probe("none", NoFailure, 0, 0, 0, <<>>)

Tokens == {<<>>, <<"">>, <<"secret">>}

Init ==
  /\ pc = "start"
  /\ env \in Tokens
  /\ databases \in DatabaseModules
  /\ apiClient = NoClient
  /\ registered = <<>>
  /\ nreg = 0
  /\ call = Idle
  /\ peer = Idle
  /\ probe = NoProbe

-----------------------------------------------------------------------------
(* index.ts: main() *)

\* a token check that tests only for the variable being set
MainCheckTokenSetOnly ==
  /\ pc = "start"
  /\ pc' = IF env = <<>> THEN "exit" ELSE "init"
  /\ UNCHANGED <<env, databases, apiClient, registered, nreg, call, probe, peer>>

\* if (!token) { console.error(...); process.exit(1) }
MainCheckToken ==
  /\ pc = "start"
  /\ pc' = IF env = <<>> \/ env[1] = "" THEN "exit" ELSE "init"
  /\ UNCHANGED <<env, databases, apiClient, registered, nreg, call, probe, peer>>

\* initializeApiClient(token); const server = new McpServer(...)
MainInitializeApiClient ==
  /\ pc = "init"
  /\ apiClient' = initializeApiClient(env)
  /\ pc' = "register"
  /\ UNCHANGED <<env, databases, registered, nreg, call, probe, peer>>

\* the next registerXTools(server) call
MainRegister ==
  /\ pc = "register"
  /\ nreg < Len(MainRegisters(databases))
  /\ registered' = registered \o RegisteredBy(MainRegisters(databases)[nreg + 1])
  /\ nreg' = nreg + 1
  /\ pc' = IF nreg' = Len(MainRegisters(databases)) THEN "connect" ELSE "register"
  /\ UNCHANGED <<env, databases, apiClient, call, probe, peer>>

\* await server.connect(new StdioServerTransport())
MainConnect ==
  /\ pc = "connect"
  /\ pc' = "serving"
  /\ UNCHANGED <<env, databases, apiClient, registered, nreg, call, probe, peer>>

-----------------------------------------------------------------------------
(* A tool invocation *)

IsRegistered(id) == \E i \in DOMAIN registered : registered[i] = id

\* makeApiRequest up to client.request: getApiClient() throws when the client
\* was never initialised
makeApiRequest(id, args, request) ==
  IF apiClient = NoClient
    THEN Call("done", id, args, 1, 0, request, NoReply,
              Outcome("thrown", {}, NotInitialized, NoResult))
    ELSE Call("awaiting", id, args, 1, 1, request, NoReply, NoOutcome)

\* a handler that runs before its arguments are parsed
InvokeUnchecked(id, args) ==
  /\ pc = "serving"
  /\ call.phase = "idle"
  /\ IsRegistered(id)
  /\ call' = makeApiRequest(id, args, BuildRequest(AllTools[id], args))
  /\ UNCHANGED <<pc, env, databases, apiClient, registered, nreg, probe, peer>>

\* tools/call: the SDK parses the arguments against the tool's schema, and
\* only then runs the handler, which builds its request and awaits
\* makeApiRequest
Invoke(id, args) ==
  /\ pc = "serving"
  /\ call.phase = "idle"
  /\ IsRegistered(id)
  /\ LET t == AllTools[id]
         bad == Violations(t.schema, args)
     IN  call' = IF bad # {}
                   THEN Call("done", id, args, 0, 0, NoRequest, NoReply,
                             Outcome("invalid", bad, NoFailure, NoResult))
                   ELSE makeApiRequest(id, args, BuildRequest(t, args))
  /\ UNCHANGED <<pc, env, databases, apiClient, registered, nreg, probe, peer>>

\* a handler that issues the request again when it fails
SettleRetrying(ok, payload, error) ==
  /\ call.phase = "awaiting"
  /\ call' = IF ok
       THEN [call EXCEPT !.phase = "done", !.reply = Reply("fulfilled", payload, error),
                         !.outcome = Outcome("returned", {}, NoFailure,
                                             Render(AllTools[call.tool], call.args, payload))]
       ELSE IF call.calls < 2
         THEN [call EXCEPT !.calls = @ + 1, !.sent = @ + 1, !.reply = Reply("rejected", payload, error)]
         ELSE [call EXCEPT !.phase = "done", !.reply = Reply("rejected", payload, error),
                           !.outcome = Outcome("thrown", {}, error, NoResult)]
  /\ UNCHANGED <<pc, env, databases, apiClient, registered, nreg, probe, peer>>

\* a handler whose answer counts the invocation answered before it
SettleCounting(ok, payload, error) ==
  /\ call.phase = "awaiting"
  /\ call' = [call EXCEPT
       !.phase = "done",
       !.reply = Reply(IF ok THEN "fulfilled" ELSE "rejected", payload, error),
       !.outcome = IF ok
                     THEN Outcome("returned", {}, NoFailure,
                                  [Render(AllTools[call.tool], call.args, payload)
                                     EXCEPT !.items = @ + (IF peer.phase = "done" THEN 1 ELSE 0)])
                     ELSE Outcome("thrown", {}, error, NoResult)]
  /\ UNCHANGED <<pc, env, databases, apiClient, registered, nreg, probe, peer>>

\* a handler that confirms without looking at how its request ended
SettleConfirming(ok, payload, error) ==
  /\ call.phase = "awaiting"
  /\ call' = [call EXCEPT
       !.phase = "done",
       !.reply = Reply(IF ok THEN "fulfilled" ELSE "rejected", payload, error),
       !.outcome = Outcome("returned", {}, NoFailure, Render(AllTools[call.tool], call.args, payload))]
  /\ UNCHANGED <<pc, env, databases, apiClient, registered, nreg, probe, peer>>

\* a handler that awaits again after a rejection instead of ending
SettleSuspending(ok, payload, error) ==
  /\ call.phase = "awaiting"
  /\ call' = IF ok
       THEN [call EXCEPT !.phase = "done", !.reply = Reply("fulfilled", payload, error),
                         !.outcome = Outcome("returned", {}, NoFailure,
                                             Render(AllTools[call.tool], call.args, payload))]
       ELSE [call EXCEPT !.reply = Reply("rejected", payload, error)]
  /\ UNCHANGED <<pc, env, databases, apiClient, registered, nreg, probe, peer>>

\* the awaited client.request settles: response.data reaches the handler, or
\* the rejection leaves the handler as it came
Settle(ok, payload, error) ==
  /\ call.phase = "awaiting"
  /\ call' = [call EXCEPT
       !.phase = "done",
       !.reply = Reply(IF ok THEN "fulfilled" ELSE "rejected", payload, error),
       !.outcome = IF ok
                     THEN Outcome("returned", {}, NoFailure, Render(AllTools[call.tool], call.args, payload))
                     ELSE Outcome("thrown", {}, error, NoResult)]
  /\ UNCHANGED <<pc, env, databases, apiClient, registered, nreg, probe, peer>>

SettleOk ==
  /\ call.phase = "awaiting"
  /\ \E p \in Payloads(AllTools[call.tool]) : Settle(TRUE, p, NoFailure)
SettleFailed ==
  /\ call.phase = "awaiting"
  /\ \E e \in ServedFailures : Settle(FALSE, Payload(0, <<>>), e)

\* the outcome has gone back to the calling agent; the server awaits the next call
Deliver ==
  /\ call.phase = "done"
  /\ call' = Idle
  /\ UNCHANGED <<pc, env, databases, apiClient, registered, nreg, probe, peer>>

Serve ==
  \/ \E id \in ToolIds : \E args \in ArgsOf(AllTools[id]) : Invoke(id, args)
  \/ SettleOk
  \/ SettleFailed
  \/ Deliver

Next ==
  \/ MainCheckToken
  \/ MainInitializeApiClient
  \/ MainRegister
  \/ MainConnect
  \/ Serve

Spec == Init /\ [][Next]_vars

-----------------------------------------------------------------------------
(* Every register function of the source on a server, with or without an  *)
(* initialised client                                                     *)

HandlerInit ==
  /\ pc = "serving"
  /\ env \in {<<>>, <<"secret">>}
  /\ databases = "registerDatabaseTools"
  /\ apiClient = IF env = <<>> THEN NoClient ELSE initializeApiClient(env)
  /\ registered = [i \in ToolIds |-> i]
  /\ nreg = 0
  /\ call = Idle
  /\ peer = Idle
  /\ probe = NoProbe

HandlerSpec == HandlerInit /\ [][Serve]_vars

\* every tool called with its minimal arguments and with one argument varied,
\* and every request of makeApiRequest settling in the end: the client is
\* created with timeout: REQUEST_TIMEOUT, so that axios rejects a
\* request the provider has not answered
ServeEach ==
  \/ \E id \in ToolIds :
       \E args \in Vary(AllTools[id].schema, BaseArgs(AllTools[id]), 1, 1) : Invoke(id, args)
  \/ SettleOk
  \/ SettleFailed
  \/ Deliver

TerminationSpec == HandlerInit /\ [][ServeEach]_vars /\ WF_vars(SettleOk \/ SettleFailed)

-----------------------------------------------------------------------------
(* handleApiError and buildPaginationResponse applied on their own *)

TranslatorInit ==
  /\ pc = "start" /\ env = <<>> /\ databases = "registerDatabaseTools"
  /\ apiClient = NoClient /\ registered = <<>> /\ nreg = 0 /\ call = Idle /\ peer = Idle
  /\ probe \in {Probe("handleApiError", e, 0, 0, 0, <<>>) : e \in Failures}

Translate ==
  /\ probe.fn = "handleApiError"
  /\ probe.out = <<>>
  /\ probe' = [probe EXCEPT !.out = handleApiError(probe.error)]
  /\ UNCHANGED <<pc, env, databases, apiClient, registered, nreg, call, peer>>

TranslatorSpec == TranslatorInit /\ [][Translate]_vars

\* totals and offsets: the small ones and those around MAX_LIMIT
Counts == 0..MaxCount \cup {MAX_LIMIT - 1, MAX_LIMIT, MAX_LIMIT + 1}
\* limits: the small ones, the default and the largest the schema admits
Limits == 1..MaxLimit \cup {DEFAULT_LIMIT, MAX_LIMIT}

PaginationInit ==
  /\ pc = "start" /\ env = <<>> /\ databases = "registerDatabaseTools"
  /\ apiClient = NoClient /\ registered = <<>> /\ nreg = 0 /\ call = Idle /\ peer = Idle
  /\ probe \in {Probe("buildPaginationResponse", NoFailure, total, limit, offset, <<>>)
                : total \in Counts, limit \in Limits, offset \in Counts}

Paginate ==
  /\ probe.fn = "buildPaginationResponse"
  /\ probe.out = <<>>
  /\ probe' = [probe EXCEPT !.out = buildPaginationResponse(probe.total, probe.limit, probe.offset)]
  /\ UNCHANGED <<pc, env, databases, apiClient, registered, nreg, call, peer>>

PaginationSpec == PaginationInit /\ [][Paginate]_vars

-----------------------------------------------------------------------------
(* The paginated list tools, called with every combination of limit,       *)
(* offset and format                                                       *)

\* limits and offsets a caller supplies: none, the small ones, the default,
\* the largest limit the schema admits and the first values it refuses
PageArgs(t) ==
  { [BaseArgs(t) EXCEPT !["limit"] = l, !["offset"] = o, !["format"] = f]
    : l \in {Undefined, Num(0), Num(1), Num(2), Num(DEFAULT_LIMIT), Num(MAX_LIMIT),
             Num(MAX_LIMIT + 1)},
      o \in {Undefined, Num(-1), Num(0), Num(1), Num(2)},
      f \in {Undefined, Str("markdown"), Str("json")} }

ListInit ==
  /\ pc = "serving"
  /\ env = <<"secret">>
  /\ databases = "registerDatabaseTools"
  /\ apiClient = initializeApiClient(env)
  /\ registered = [i \in ToolIds |-> i]
  /\ nreg = 0
  /\ call = Idle
  /\ peer = Idle
  /\ probe = NoProbe

ServeList ==
  \/ \E id \in {i \in ToolIds : AllTools[i].paginated} :
       \E args \in PageArgs(AllTools[id]) : Invoke(id, args)
  \/ SettleOk
  \/ SettleFailed
  \/ Deliver

ListSpec == ListInit /\ [][ServeList]_vars

-----------------------------------------------------------------------------
(* formatBytes applied on its own *)

\* every count of up to Len(sizes) digits, and those of one digit more that
\* start with 1 (the counts from k^5 up to 2 k^5); the digits tried are the
\* ends, the middle, a tie of toFixed and the last ones before the next power
ByteCounts ==
  LET Digits == {0, 1, 128, 512, kUnit - 4, kUnit - 3, kUnit - 1}
  IN  {<<>>}
        \cup UNION { {b \in [1..n -> Digits] : b[1] # 0} : n \in 1..Len(sizes) }
        \cup {b \in [1..(Len(sizes) + 1) -> Digits] : b[1] = 1}

BytesProbe(bytes, out) == [fn |-> "formatBytes", bytes |-> bytes, out |-> out]

BytesInit ==
  /\ pc = "start" /\ env = <<>> /\ databases = "registerDatabaseTools"
  /\ apiClient = NoClient /\ registered = <<>> /\ nreg = 0 /\ call = Idle /\ peer = Idle
  /\ probe \in {BytesProbe(b, <<>>) : b \in ByteCounts}

FormatBytes ==
  /\ probe.fn = "formatBytes"
  /\ probe.out = <<>>
  /\ probe' = [probe EXCEPT !.out = formatBytes(probe.bytes)]
  /\ UNCHANGED <<pc, env, databases, apiClient, registered, nreg, call, peer>>

BytesSpec == BytesInit /\ [][FormatBytes]_vars

-----------------------------------------------------------------------------
(* Two tool invocations in progress at the same time.  The handlers are    *)
(* async functions: an invocation runs up to its await, and the other may  *)
(* start, or settle, before the first one resumes.                         *)

\* the argument mappings of those calls: the minimal one, and the ones that
\* differ from it in the format or in a field of the request
ConcurrentArgs(t) ==
  {BaseArgs(t)}
    \cup (IF "format" \in FieldNames(t)
            THEN {[BaseArgs(t) EXCEPT !["format"] = Str("json")]} ELSE {})
    \cup (IF t.paginated THEN {[BaseArgs(t) EXCEPT !["limit"] = Num(2)]} ELSE {})
    \cup (IF "server_id" \in FieldNames(t)
            THEN {[BaseArgs(t) EXCEPT !["server_id"] = Num(2)]} ELSE {})

ConcurrentInit ==
  /\ pc = "serving"
  /\ env = <<"secret">>
  /\ databases = "registerDatabaseTools"
  /\ apiClient = initializeApiClient(env)
  /\ registered = [i \in ToolIds |-> i]
  /\ nreg = 0
  /\ call = Idle
  /\ peer = Idle
  /\ probe = NoProbe

\* the second invocation enters its handler
InvokePeer(id, args) ==
  /\ pc = "serving"
  /\ peer.phase = "idle"
  /\ IsRegistered(id)
  /\ LET t == AllTools[id]
         bad == Violations(t.schema, args)
     IN  peer' = IF bad # {}
                   THEN Call("done", id, args, 0, 0, NoRequest, NoReply,
                             Outcome("invalid", bad, NoFailure, NoResult))
                   ELSE makeApiRequest(id, args, BuildRequest(t, args))
  /\ UNCHANGED <<pc, env, databases, apiClient, registered, nreg, call, probe>>

\* a handler that keeps its arguments in a variable of the module, which the
\* other invocation overwrites while this one awaits
SettlePeerShared(ok, payload, error) ==
  /\ peer.phase = "awaiting"
  /\ peer' = [peer EXCEPT
       !.phase = "done",
       !.reply = Reply(IF ok THEN "fulfilled" ELSE "rejected", payload, error),
       !.outcome = IF ok
                     THEN Outcome("returned", {}, NoFailure,
                                  Render(AllTools[peer.tool],
                                         IF call.phase = "idle" THEN peer.args ELSE call.args,
                                         payload))
                     ELSE Outcome("thrown", {}, error, NoResult)]
  /\ UNCHANGED <<pc, env, databases, apiClient, registered, nreg, call, probe>>

\* the second invocation's request settles and its handler resumes
SettlePeer(ok, payload, error) ==
  /\ peer.phase = "awaiting"
  /\ peer' = [peer EXCEPT
       !.phase = "done",
       !.reply = Reply(IF ok THEN "fulfilled" ELSE "rejected", payload, error),
       !.outcome = IF ok
                     THEN Outcome("returned", {}, NoFailure, Render(AllTools[peer.tool], peer.args, payload))
                     ELSE Outcome("thrown", {}, error, NoResult)]
  /\ UNCHANGED <<pc, env, databases, apiClient, registered, nreg, call, probe>>

SettlePeerOk ==
  /\ peer.phase = "awaiting"
  /\ \E p \in Payloads(AllTools[peer.tool]) : SettlePeer(TRUE, p, NoFailure)
SettlePeerFailed ==
  /\ peer.phase = "awaiting"
  /\ \E e \in ServedFailures : SettlePeer(FALSE, Payload(0, <<>>), e)

DeliverPeer ==
  /\ peer.phase = "done"
  /\ peer' = Idle
  /\ UNCHANGED <<pc, env, databases, apiClient, registered, nreg, call, probe>>

\* the tools called concurrently: a list, a get and a create tool
ServeConcurrently ==
  \/ \E id \in {i \in ToolIds : AllTools[i].name \in
                    {"timeweb_list_servers", "timeweb_get_server", "timeweb_create_server"}} :
       \E args \in ConcurrentArgs(AllTools[id]) : Invoke(id, args)
  \/ SettleOk
  \/ SettleFailed
  \/ Deliver
  \/ \E id \in {i \in ToolIds : AllTools[i].name \in
                    {"timeweb_list_servers", "timeweb_get_server", "timeweb_create_server"}} :
       \E args \in ConcurrentArgs(AllTools[id]) : InvokePeer(id, args)
  \/ SettlePeerOk
  \/ SettlePeerFailed
  \/ DeliverPeer

ConcurrentSpec == ConcurrentInit /\ [][ServeConcurrently]_vars

-----------------------------------------------------------------------------
(* A get or list tool invoked a second time with the arguments of an       *)
(* invocation that is in progress or has returned                          *)

\* the same tools/call request once more
Repeat ==
  /\ call.phase \in {"awaiting", "done"}
  /\ InvokePeer(call.tool, call.args)

ServeTwice ==
  \/ \E id \in {i \in ToolIds : AllTools[i].kind \in {"get", "list"}} :
       \E args \in ConcurrentArgs(AllTools[id]) : Invoke(id, args)
  \/ SettleOk
  \/ SettleFailed
  \/ Repeat
  \/ SettlePeerOk
  \/ SettlePeerFailed

ReplaySpec == ConcurrentInit /\ [][ServeTwice]_vars

-----------------------------------------------------------------------------
(* The resource formatters.  A formatter is a template literal; what it does *)
(* with a field that the resource type declares optional (f?: T) or nullable *)
(* (f: T | null) is one of a few forms:                                      *)
(*    ${x.f || "P"}   ${x.f ? g(x.f) : "P"}   ${x.o?.f || "P"}               *)
(*    ${x.g ? `${x.f} #${x.g}` : "P"}                                        *)
(* A slot is one such interpolation: the field tested (guard), the object    *)
(* the tested field lives in when that object is itself nullable (under),    *)
(* the field whose value is printed when the test holds (shows), what a      *)
(* template literal prints for that field when it is absent (missing:        *)
(* "undefined" for f?: T, "null" for T | null, "" for a required field),     *)
(* and the text printed when the test fails (placeholder; "<f>" stands for   *)
(* the value of the required field f).                                       *)

Slot(fn, at, guard, under, shows, missing, placeholder) ==
  [fn |-> fn, at |-> at, guard |-> guard, under |-> under, shows |-> shows,
   missing |-> missing, placeholder |-> placeholder]

Formatters == <<
  \* src/tools/servers.ts 8-19, Server: types.ts (part_000 296-338)
  Slot("formatServer", "OS", "os", "", "os.name", "", "N/A"),
  Slot("formatServer", "OS version", "os.version", "os", "os.version", "null", ""),
  Slot("formatServer", "CPU", "configurator", "", "configurator.cpu", "", "<cpu>"),
  Slot("formatServer", "RAM", "configurator", "", "configurator.ram", "", "<ram>"),
  Slot("formatServer", "Disk", "configurator", "", "configurator.disk", "", "N/A"),
  Slot("formatServer", "Main IP", "main_ipv4", "", "main_ipv4", "undefined", "N/A"),
  Slot("formatServer", "Bandwidth", "bandwidth", "", "bandwidth", "undefined", "N/A"),
  \* tools/balancers.ts (part_004 8-38), Balancer, BalancerPreset
  Slot("formatBalancer", "IP", "ip", "", "ip", "null", "Not assigned"),
  Slot("formatBalancer", "Local IP", "local_ip", "", "local_ip", "null", "N/A"),
  Slot("formatBalancerPreset", "Description", "description", "", "description", "null", "N/A"),
  Slot("formatBalancerPreset", "RPS", "request_per_second", "", "request_per_second", "null", "Unlimited"),
  \* src/tools/firewall.ts 8-20, FirewallGroup, FirewallRule
  Slot("formatFirewallGroup", "Description", "description", "", "description", "null", "N/A"),
  Slot("formatFirewallRule", "Port", "port", "", "port", "null", "all"),
  Slot("formatFirewallRule", "description", "description", "", "description", "null", ""),
  \* src/tools/floating-ips.ts 8-15, FloatingIp
  Slot("formatFloatingIp", "Bound To", "resource_id", "", "resource_type", "undefined", "Not bound"),
  Slot("formatFloatingIp", "Comment", "comment", "", "comment", "null", "None"),
  \* src/tools/locations.ts 6-11, Location
  Slot("formatLocation", "heading", "description", "", "description", "undefined", "<id>"),
  Slot("formatLocation", "Country", "country", "", "country", "undefined", "N/A"),
  Slot("formatLocation", "City", "city", "", "city", "undefined", "N/A"),
  \* src/tools/vpc.ts 27-29, VpcService
  Slot("formatVpcService", "IP", "ip", "", "ip", "null", "N/A"),
  \* tools/ssh-keys.ts (part_003 8-13), SshKey
  Slot("formatSshKey", "Fingerprint", "fingerprint", "", "fingerprint", "undefined", "N/A"),
  \* tools/domains.ts (part_006 8-19), Domain, DnsRecord
  Slot("formatDomain", "Linked IP", "linked_ip", "", "linked_ip", "null", "None"),
  Slot("formatDomain", "Auto-Renew", "is_autoprolong_enabled", "", "is_autoprolong_enabled", "null", "No"),
  Slot("formatDomain", "Privacy", "is_whois_privacy_enabled", "", "is_whois_privacy_enabled", "null", "Disabled"),
  Slot("formatDomain", "Expiration", "expiration_date", "", "expiration_date", "null", "N/A"),
  Slot("formatDnsRecord", "subdomain", "subdomain", "", "subdomain", "undefined", "@"),
  Slot("formatDnsRecord", "TTL", "ttl", "", "ttl", "undefined", "default"),
  \* tools/projects.ts (part_006 262-267), Project
  Slot("formatProject", "Avatar ID", "avatar_id", "", "avatar_id", "null", "Default"),
  \* tools/images.ts and tools/apps.ts (part_005 26-35, 233-248), CustomImage, App, AppDeploy
  Slot("formatImage", "OS", "os", "", "os.name", "", "N/A"),
  Slot("formatImage", "OS version", "os.version", "os", "os.version", "null", ""),
  Slot("formatImage", "Description", "description", "", "description", "null", "N/A"),
  Slot("formatApp", "Repository", "repository", "", "repository.full_name", "", "N/A"),
  Slot("formatApp", "Branch", "branch", "", "branch", "null", "N/A"),
  Slot("formatApp", "Last Commit", "commit", "", "commit.message", "", "N/A"),
  Slot("formatDeploy", "commit", "commit", "", "commit.message", "", "N/A"),
  \* tools/databases.ts (part_001 8-17 and 211-220), DatabaseCluster
  Slot("formatDatabase", "Host", "host", "", "host", "undefined", "N/A"),
  Slot("formatDatabase", "Admin Login", "admin", "", "admin.login", "", "N/A"),
  \* tools/storage.ts (part_002 8-17), S3Storage
  Slot("formatS3Storage", "Endpoint", "endpoint", "", "endpoint", "undefined", "N/A")
>>

FormatterNames == {Formatters[i].fn : i \in DOMAIN Formatters}

\* the fields of the resource of formatter fn that may be absent or null
OptionalFields(fn) ==
  {Formatters[i].guard : i \in {j \in DOMAIN Formatters : Formatters[j].fn = fn}}
    \cup {Formatters[i].shows :
            i \in {j \in DOMAIN Formatters : Formatters[j].fn = fn /\ Formatters[j].missing # ""}}

\* the text one interpolation leaves in the rendering of a resource whose
\* fields in absent are missing or null
formatSlot(s, absent) ==
  IF s.guard \notin absent /\ s.under \notin absent
    THEN IF s.shows \in absent THEN s.missing ELSE "<" \o s.shows \o ">"
    ELSE s.placeholder

FormatProbe(fn, absent, out) == [fn |-> fn, absent |-> absent, out |-> out]

FormatterInit ==
  /\ pc = "start" /\ env = <<>> /\ databases = "registerDatabaseTools"
  /\ apiClient = NoClient /\ registered = <<>> /\ nreg = 0 /\ call = Idle /\ peer = Idle
  /\ probe \in UNION { {FormatProbe(fn, absent, <<>>) : absent \in SUBSET OptionalFields(fn)} :
                        fn \in FormatterNames }

\* items.map(formatX): the formatter applied to one resource
FormatResource ==
  /\ probe.fn \in FormatterNames
  /\ probe.out = <<>>
  /\ probe' = [probe EXCEPT !.out =
       LET mine == SelectSeq(Formatters, LAMBDA s : s.fn = probe.fn)
       IN  [i \in DOMAIN mine |-> [at |-> mine[i].at, text |-> formatSlot(mine[i], probe.absent)]]]
  /\ UNCHANGED <<pc, env, databases, apiClient, registered, nreg, call, peer>>

FormatterSpec == FormatterInit /\ [][FormatResource]_vars

-----------------------------------------------------------------------------
(* The length of a response text: timeweb_get_app_logs after its await.    *)
(* response.logs is a string of the provider's: the model keeps its length *)
(* and the number of characters JSON.stringify adds when escaping it.      *)

CHARACTER_LIMIT == 25000

LogText(len, esc) == [ty |-> "string", len |-> len, esc |-> esc]

\* response.logs: missing, empty, short, and around the limit
LogTexts ==
  {Undefined} \cup
  { l \in { LogText(n, e) : n \in {0, 1, 1000, CHARACTER_LIMIT - 36, CHARACTER_LIMIT - 35,
                                    CHARACTER_LIMIT, 2 * CHARACTER_LIMIT},
                             e \in {0, 1} } : l.esc <= l.len }

\* the handler of timeweb_get_app_logs from `const logs = response.logs || ""`
\* to its return: the branch taken and the length of content[0].text
getAppLogs(appId, fmt, responseLogs) ==
  LET format == IF Truthy(fmt) THEN fmt.s ELSE "markdown"
      logs == IF responseLogs = Undefined \/ responseLogs.len = 0
                THEN LogText(0, 0) ELSE responseLogs
      id == Len(ToString(appId))
      fence == 3   \* the three backquotes that open and close the code block
  IN  IF format = "json"
        THEN [branch |-> "json",
              length |-> Len("{\n  \"logs\": \"") + logs.len + logs.esc
                           + Len("\",\n  \"app_id\": ") + id + Len("\n}")]
      ELSE IF logs.len = 0
        THEN [branch |-> "empty",
              length |-> Len("No logs available for application ") + id + Len(".")]
      ELSE [branch |-> "logs",
            length |-> Len("# Application Logs (App ") + id + Len(")\n\n") + fence + Len("\n")
                         + logs.len + Len("\n") + fence]

LogsProbe(appId, format, logs, out) ==
  [fn |-> "timeweb_get_app_logs", app_id |-> appId, format |-> format, logs |-> logs, out |-> out]

LogsInit ==
  /\ pc = "start" /\ env = <<>> /\ databases = "registerDatabaseTools"
  /\ apiClient = NoClient /\ registered = <<>> /\ nreg = 0 /\ call = Idle /\ peer = Idle
  /\ probe \in { LogsProbe(id, f, l, <<>>) :
                   id \in {1, 42, 1000}, f \in {Undefined, Str("markdown"), Str("json")},
                   l \in LogTexts }

GetAppLogs ==
  /\ probe.fn = "timeweb_get_app_logs"
  /\ probe.out = <<>>
  /\ probe' = [probe EXCEPT !.out = <<getAppLogs(probe.app_id, probe.format, probe.logs)>>]
  /\ UNCHANGED <<pc, env, databases, apiClient, registered, nreg, call, peer>>

LogsSpec == LogsInit /\ [][GetAppLogs]_vars

-----------------------------------------------------------------------------
(* Properties *)

\* the tool of the invocation in progress
ToolOfCall == AllTools[call.tool]

\* C1: a tool invocation enters makeApiRequest at most once: exactly once when
\* its arguments pass the schema, never when they do not; a failed request is
\* not issued again, and an invocation puts at most one request on the wire.
C1_AtMostOneRequest ==
  call.phase # "idle" =>
    /\ call.calls = IF \A i \in DOMAIN ToolOfCall.schema :
                         Accepts(ToolOfCall.schema[i].z, call.args[ToolOfCall.schema[i].name])
                      THEN 1 ELSE 0
    /\ call.sent <= call.calls
    /\ call.reply.state = "rejected" => call.phase = "done" /\ call.calls = 1 /\ call.sent = 1

\* C1 witness: a request was sent, it failed, and the invocation is over
C1_FailedOnce ==
  /\ call.phase = "done"
  /\ call.reply.state = "rejected"
  /\ call.calls = 1

\* C2: an invocation whose request failed comes back with exactly one string,
\* the one handleApiError makes of the failure, as a returned value and not as
\* a thrown one.
C2_FailureReturnedAsText ==
  (call.phase = "done" /\ call.reply.state = "rejected") =>
    /\ call.outcome.kind = "returned"
    /\ call.outcome.result.summary = handleApiError(call.reply.error)

\* C3: arguments that break the tool's schema are rejected naming the offending
\* fields before the handler runs, so nothing is requested; among them a limit
\* that is not an integer in 1..100 or an offset that is not an integer >= 0 on
\* a paginated tool, an identifier declared with idSchema that is not a positive
\* integer, a value outside an enumeration, a value of the wrong type and a
\* missing required argument.
C3_ValidationFirst ==
  call.phase # "idle" =>
    LET t == ToolOfCall
        IsInt(v) == v.ty = "number" /\ v.n % 2 = 0
        BadLimit == t.paginated /\ call.args["limit"] # Undefined
                      /\ ~(IsInt(call.args["limit"]) /\ call.args["limit"].n \div 2 \in 1..100)
        BadOffset == t.paginated /\ call.args["offset"] # Undefined
                       /\ ~(IsInt(call.args["offset"]) /\ call.args["offset"].n >= 0)
        Missing == {f \in Required(t) : call.args[f] = Undefined}
        WrongType == {f \in FieldNames(t) :
                        /\ call.args[f] # Undefined
                        /\ call.args[f].ty #
                             (CASE DescriptorOf(t, f).ty = "enum" -> "string"
                                [] DescriptorOf(t, f).ty = "record" -> "object"
                                [] OTHER -> DescriptorOf(t, f).ty)}
        BadEnum == {f \in FieldNames(t) :
                      /\ DescriptorOf(t, f).ty = "enum"
                      /\ call.args[f].ty = "string"
                      /\ \A i \in DOMAIN DescriptorOf(t, f).vals : DescriptorOf(t, f).vals[i] # call.args[f].s}
        BadId == {f \in FieldNames(t) :
                    /\ [DescriptorOf(t, f) EXCEPT !.req = TRUE] = idSchema
                    /\ call.args[f] # Undefined
                    /\ ~(IsInt(call.args[f]) /\ call.args[f].n > 0)}
        named == Missing \cup WrongType \cup BadEnum \cup BadId
                   \cup (IF BadLimit THEN {"limit"} ELSE {})
                   \cup (IF BadOffset THEN {"offset"} ELSE {})
    IN  /\ named # {} =>
             /\ call.outcome.kind = "invalid"
             /\ named \subseteq call.outcome.fields
             /\ call.calls = 0 /\ call.sent = 0 /\ call.request = NoRequest
        /\ call.outcome.kind = "invalid" =>
             /\ call.outcome.fields = Violations(t.schema, call.args)
             /\ call.outcome.fields # {}
             /\ call.calls = 0 /\ call.sent = 0 /\ call.request = NoRequest
        /\ call.sent > 0 => Violations(t.schema, call.args) = {}

\* C3 witness: a paginated tool called with limit 101 was rejected on "limit"
C3_LimitRejected ==
  /\ call.phase = "done"
  /\ ToolOfCall.paginated
  /\ call.args["limit"] = Num(MAX_LIMIT + 1)
  /\ call.outcome.kind = "invalid"
  /\ call.outcome.fields = {"limit"}
  /\ call.sent = 0

\* C4: main() leaves before the client exists when the token is unset or empty:
\* past the token check the token is a non-empty string; once a tool is
\* registered, the server connected or a request sent, the client exists and
\* carries that token; without a token nothing is ever registered or sent.
C4_TokenBeforeEverything ==
  /\ pc \notin {"start", "exit"} => env # <<>> /\ env[1] # ""
  /\ (registered # <<>> \/ pc \in {"connect", "serving"} \/ call.calls > 0) =>
       /\ env # <<>> /\ env[1] # ""
       /\ apiClient # NoClient
       /\ apiClient.authorization = "Bearer " \o env[1]
  /\ (env = <<>> \/ env = <<"">>) =>
       /\ pc \in {"start", "exit"}
       /\ apiClient = NoClient /\ registered = <<>> /\ call = Idle

\* C4 witness: a registered tool has a request on the wire with the token set
C4_ServingWithToken ==
  /\ pc = "serving"
  /\ call.sent = 1
  /\ IsRegistered(call.tool)
  /\ apiClient.authorization = "Bearer secret"

\* C5: a create tool called with its required arguments only sends a body whose
\* keys are exactly the required arguments that are not part of the path, each
\* with the value supplied; no optional key is present.
C5_MinimalCreateBody ==
  (/\ call.phase # "idle"
   /\ call.calls = 1
   /\ ToolOfCall.kind = "create"
   /\ \A f \in Optionals(ToolOfCall) : call.args[f] = Undefined) =>
    LET t == ToolOfCall
        inPath == {t.pathParams[i] : i \in DOMAIN t.pathParams}
    IN  /\ call.request.method = "POST"
        /\ call.request.body # NoObject
        /\ DOMAIN call.request.body[1] = Required(t) \ inPath
        /\ \A f \in Required(t) \ inPath : call.request.body[1][f] = call.args[f]

\* C5 witness: timeweb_create_server called with name and os_id alone
C5_MinimalCreateServer ==
  /\ call.phase = "awaiting"
  /\ ToolOfCall.name = "timeweb_create_server"
  /\ \A f \in Optionals(ToolOfCall) : call.args[f] = Undefined
  /\ call.request.body = << [name |-> Str("a"), os_id |-> Num(1)] >>

\* C6: for total >= 0, 1 <= limit <= 100 and offset >= 0 the summary line of
\* buildPaginationResponse shows the page p with (p-1)*limit <= offset < p*limit,
\* that is floor(offset/limit)+1, and the page count n with
\* (n-1)*limit < total <= n*limit, that is ceil(total/limit); the note about
\* the offset parameter is there exactly when offset + limit < total.
C6_PaginationMath ==
  (probe.fn = "buildPaginationResponse" /\ probe.out # <<>>) =>
    /\ Len(probe.out) \in {11, 12}
    /\ \E p \in 1..(probe.offset + 1) :
         /\ probe.out[8] = ToString(p)
         /\ (p - 1) * probe.limit <= probe.offset
         /\ probe.offset < p * probe.limit
    /\ \E n \in 0..probe.total :
         /\ probe.out[10] = ToString(n)
         /\ (n - 1) * probe.limit < probe.total
         /\ probe.total <= n * probe.limit
    /\ (Len(probe.out) = 12) <=> (probe.offset + probe.limit < probe.total)
    /\ Len(probe.out) = 12 => probe.out[12] = "\n*Use offset parameter to see more results.*"

\* C6 witness: a middle page with a partial last page still ahead
C6_MiddlePage ==
  /\ probe.fn = "buildPaginationResponse"
  /\ probe.total = 7 /\ probe.limit = 3 /\ probe.offset = 3
  /\ probe.out # <<>>
  /\ probe.out[8] = "2" /\ probe.out[10] = "3"
  /\ Len(probe.out) = 12

\* C7: a failure with a response of status 404 is rendered in the "Resource not
\* found." class and one of status 429 as the fixed rate-limit message, whatever
\* the other fields of the error are; failures with the same status and the same
\* provider message are rendered as the same string.
C7_StatusDecides ==
  (/\ probe.fn = "handleApiError" /\ probe.out # <<>>
   /\ probe.error.cls = "AxiosError" /\ probe.error.hasResponse) =>
    /\ probe.error.status = 404 =>
         /\ Len(probe.out) = 3
         /\ probe.out[1] \o probe.out[2] = "Error: Resource not found. "
    /\ probe.error.status = 429 =>
         Text(probe.out) = "Error: Rate limit exceeded. Please wait before making more requests."
    /\ \A e \in HttpFailures :
         (/\ e.status = probe.error.status
          /\ (IF e.msgForm = "none" THEN "" ELSE Join(e.msgParts, ", "))
               = (IF probe.error.msgForm = "none" THEN "" ELSE Join(probe.error.msgParts, ", ")))
           => Text(handleApiError(e)) = Text(probe.out)

\* C7 witness: a 429 whose body carries a message of its own
C7_RateLimitWithMessage ==
  /\ probe.fn = "handleApiError"
  /\ probe.error.hasResponse /\ probe.error.status = 429
  /\ probe.error.msgParts = <<"db not found">>
  /\ Text(probe.out) = "Error: Rate limit exceeded. Please wait before making more requests."

\* C8: handleApiError makes of every failure value one string that begins with
\* "Error:" and never throws; the statuses 400, 401, 403, 404, 409, 423, 429
\* and 500 have canned messages that differ from one another, every other
\* status gives "API request failed with status <status>. <provider message>",
\* and a failure that is neither an HTTP response nor a timeout or lookup
\* failure gives "Unexpected error occurred: <the exception's message>".
C8_TotalTranslator ==
  (probe.fn = "handleApiError" /\ probe.out # <<>>) =>
    LET e == probe.error
        canned == {400, 401, 403, 404, 409, 423, 429, 500}
        http == e.cls = "AxiosError" /\ e.hasResponse
        text == IF e.msgForm = "none" THEN "" ELSE Join(e.msgParts, ", ")
    IN  /\ Len(probe.out) = 3
        /\ probe.out[1] = "Error: "
        /\ (http /\ e.status \in canned) =>
             \A o \in HttpFailures :
               (o.status \in canned /\ o.status # e.status) =>
                 handleApiError(o)[2] # probe.out[2]
        /\ (http /\ e.status \notin canned) =>
             /\ probe.out[2] = "API request failed with status " \o ToString(e.status) \o ". "
             /\ probe.out[3] = text
        /\ (~http /\ ~(e.cls = "AxiosError" /\ e.code \in {"ECONNABORTED", "ENOTFOUND"})) =>
             /\ probe.out[2] = "Unexpected error occurred: "
             /\ probe.out[3] = e.message

\* C9: a failure without a response that is a connection timeout is rendered as
\* the fixed timeout message, and one that is a name-resolution or connectivity
\* failure as the fixed could-not-connect message; neither is rendered with the
\* "Unexpected error" template or as an HTTP status message.
C9_TransportClasses ==
  (/\ probe.fn = "handleApiError" /\ probe.out # <<>>
   /\ probe.error.cls = "AxiosError" /\ ~probe.error.hasResponse) =>
    /\ probe.error.code \in {"ECONNABORTED", "ETIMEDOUT"} =>
         Text(probe.out) = "Error: Request timed out. Please try again."
    /\ probe.error.code \in {"ENOTFOUND", "EAI_AGAIN", "ECONNREFUSED", "ENETUNREACH"} =>
         Text(probe.out) =
           "Error: Could not connect to Timeweb Cloud API. Check your network connection."

\* C10: a tool that declares the format argument answers a successful call in
\* the structured form exactly when format is "json", and in the rendered form
\* when format is omitted or "markdown".
C10_FormatSelectsMode ==
  (/\ call.phase = "done" /\ call.outcome.kind = "returned"
   /\ "format" \in FieldNames(ToolOfCall)) =>
    /\ call.outcome.result.mode = "json" <=> call.args["format"] = Str("json")
    /\ call.args["format"] \in {Undefined, Str("markdown")} =>
         call.outcome.result.mode = "markdown"
    /\ call.outcome.result.mode \in {"json", "markdown"}

\* C10 witness: timeweb_get_server answered in the structured form
C10_StructuredOnRequest ==
  /\ call.phase = "done" /\ call.outcome.kind = "returned"
  /\ ToolOfCall.name = "timeweb_get_server"
  /\ call.args["format"] = Str("json")
  /\ call.outcome.result.mode = "json"

\* C11: in the structured form the provider payload is passed through
\* unmodified: a get or create tool prints exactly the object found under the
\* resource key of the response, with no key of its own around it, and a
\* paginated list tool prints the item array together with total, limit and
\* offset and nothing else.
C11_PayloadPassedThrough ==
  (/\ call.phase = "done" /\ call.outcome.kind = "returned"
   /\ call.outcome.result.mode = "json") =>
    /\ ToolOfCall.kind \in {"get", "create"} =>
         /\ call.outcome.result.json.keys = <<>>
         /\ call.outcome.result.json.value # ""
    /\ (ToolOfCall.kind = "list" /\ ToolOfCall.paginated) =>
         /\ Len(call.outcome.result.json.keys) = 4
         /\ Tail(call.outcome.result.json.keys) = <<"total", "limit", "offset">>
         /\ call.outcome.result.json.value # ""

\* C12: a list tool answering in the rendered form to an empty item array
\* returns exactly its "no items" sentence, with the argument it names filled
\* in, and neither a heading nor a pagination summary.
C12_EmptyPageSentence ==
  (/\ call.phase = "done" /\ call.outcome.kind = "returned"
   /\ ToolOfCall.kind = "list"
   /\ call.outcome.result.mode = "markdown"
   /\ call.reply.payload.count = 0) =>
    /\ ViewOf(ToolOfCall).empty # <<>>
    /\ call.outcome.result.empty
    /\ call.outcome.result.text = Fill(ViewOf(ToolOfCall).empty, call.args)
    /\ call.outcome.result.summary = <<>>
    /\ \A i \in DOMAIN call.outcome.result.text :
         call.outcome.result.text[i] \notin {"# ", "Showing ", "\n\n"}

\* C12 witness: timeweb_list_dns_records for a zone without records
C12_NoDnsRecords ==
  /\ call.phase = "done" /\ call.outcome.kind = "returned"
  /\ ToolOfCall.name = "timeweb_list_dns_records"
  /\ call.reply.payload.count = 0
  /\ Text(call.outcome.result.text) = "No DNS records found for a."

\* C13: a paginated list tool answering in the rendered form to a non-empty
\* page ends its document with the rendering of every item of the page, once
\* each and in page order, consecutive items separated by a blank line.
C13_ItemsSeparatedByBlankLine ==
  (/\ call.phase = "done" /\ call.outcome.kind = "returned"
   /\ ToolOfCall.kind = "list" /\ ToolOfCall.paginated
   /\ call.outcome.result.mode = "markdown"
   /\ call.reply.payload.count > 0) =>
    LET text == call.outcome.result.text
        n == call.reply.payload.count
        base == Len(text) - (2 * n - 1)
        fmt == ViewOf(ToolOfCall).fmt
    IN  /\ base >= 0
        /\ \A k \in 1..n :
             /\ text[base + 2 * k - 1] = ItemText(fmt, k)
             /\ Cardinality({i \in DOMAIN text : text[i] = ItemText(fmt, k)}) = 1
        /\ \A k \in 1..(n - 1) : text[base + 2 * k] = "\n\n"

\* C14 as stated: timeweb_list_servers called with limit 50 and offset 0 in
\* the rendered form, the backend reporting total 2 with two servers, returns
\* a document that begins with "Showing 1-2 of 2 items (Page 1/1)", goes on
\* with exactly two per-server sections and has no more-results note.
C14_ScenarioABeginsWithSummary ==
  (/\ call.phase = "done" /\ call.outcome.kind = "returned"
   /\ ToolOfCall.name = "timeweb_list_servers"
   /\ call.args["limit"] = Num(50) /\ call.args["offset"] = Num(0)
   /\ call.args["format"] \in {Undefined, Str("markdown")}
   /\ call.reply.payload = Payload(2, <<2>>)) =>
    Text(call.outcome.result.text) =
      "Showing 1-2 of 2 items (Page 1/1)\n\nformatServer(1)\n\nformatServer(2)"

\* C14: in that scenario the document is the heading "# Cloud Servers", a
\* blank line, the summary "Showing 1-2 of 2 items (Page 1/1)", a blank line
\* and exactly two per-server sections, with no more-results note.
C14_ScenarioA ==
  (/\ call.phase = "done" /\ call.outcome.kind = "returned"
   /\ ToolOfCall.name = "timeweb_list_servers"
   /\ call.args["limit"] = Num(50) /\ call.args["offset"] = Num(0)
   /\ call.args["format"] \in {Undefined, Str("markdown")}
   /\ call.reply.payload = Payload(2, <<2>>)) =>
    /\ Text(call.outcome.result.text) =
         "# Cloud Servers\n\nShowing 1-2 of 2 items (Page 1/1)\n\nformatServer(1)\n\nformatServer(2)"
    /\ Text(call.outcome.result.summary) = "Showing 1-2 of 2 items (Page 1/1)"
    /\ Cardinality({i \in DOMAIN call.outcome.result.text :
                      call.outcome.result.text[i] \in {ItemText("formatServer", k) : k \in 1..MaxItems}}) = 2
    /\ \A i \in DOMAIN call.outcome.result.text :
         call.outcome.result.text[i] # "\n*Use offset parameter to see more results.*"

\* C14 witness: the scenario's call has returned its document
C14_ScenarioAReturned ==
  /\ call.phase = "done" /\ call.outcome.kind = "returned"
  /\ ToolOfCall.name = "timeweb_list_servers"
  /\ call.args["limit"] = Num(50) /\ call.args["offset"] = Num(0)
  /\ call.args["format"] = Undefined
  /\ call.reply.payload = Payload(2, <<2>>)
  /\ call.outcome.result.mode = "markdown"
  /\ Len(call.outcome.result.text) = 18

\* C15: formatBytes(0) is "0 B", formatBytes(1536) is "1.5 KB",
\* formatBytes(1073741824) is "1 GB", and for every positive count below
\* 1024^5 the unit is the largest of B, KB, MB, GB, TB whose size 1024^i does
\* not exceed the count, the number being the count over 1024^i rounded to at
\* most two decimals.
C15_ByteFormatting ==
  (probe.fn = "formatBytes" /\ probe.out # <<>>) =>
    /\ probe.bytes = <<>> => Text(probe.out) = "0 B"
    /\ probe.bytes = <<1, 512>> => Text(probe.out) = "1.5 KB"
    /\ probe.bytes = <<1, 0, 0, 0>> => Text(probe.out) = "1 GB"
    /\ Len(probe.bytes) \in 1..5 =>
         /\ probe.out[3] = <<"B", "KB", "MB", "GB", "TB">>[Len(probe.bytes)]
         /\ probe.out[1] = NumberText(ToFixed2(probe.bytes, Len(probe.bytes) - 1))

\* C16: for every non-negative byte count, those of 1024^5 and more included,
\* the unit formatBytes prints is one of B, KB, MB, GB, TB.
C16_UnitNeverExceedsTB ==
  (probe.fn = "formatBytes" /\ probe.out # <<>>) =>
    probe.out[3] \in {"B", "KB", "MB", "GB", "TB"}

\* C17: every request a paginated list tool issues carries the query
\* parameters limit and offset, with 1 <= limit <= 100 and offset >= 0; limit
\* is the caller's limit when one was supplied and 50 otherwise, offset is the
\* caller's offset when one was supplied and 0 otherwise.
C17_PaginationWindow ==
  (/\ call.phase \in {"awaiting", "done"} /\ call.sent > 0
   /\ ToolOfCall.paginated) =>
    /\ call.request.query # NoObject
    /\ {"limit", "offset"} \subseteq DOMAIN call.request.query[1]
    /\ LET limit == call.request.query[1]["limit"]
           offset == call.request.query[1]["offset"]
       IN  /\ limit.ty = "number" /\ limit.n % 2 = 0
           /\ 1 <= limit.n \div 2 /\ limit.n \div 2 <= 100
           /\ offset.ty = "number" /\ offset.n % 2 = 0 /\ offset.n >= 0
           /\ limit = IF call.args["limit"] # Undefined THEN call.args["limit"] ELSE Num(50)
           /\ offset = IF call.args["offset"] # Undefined THEN call.args["offset"] ELSE Num(0)

\* C17 witness: timeweb_list_servers awaits a request with the caller's limit
\* and the default offset
C17_CallerLimitDefaultOffset ==
  /\ call.phase = "awaiting"
  /\ ToolOfCall.name = "timeweb_list_servers"
  /\ call.args["limit"] = Num(2) /\ call.args["offset"] = Undefined
  /\ call.request.query[1]["limit"] = Num(2)
  /\ call.request.query[1]["offset"] = Num(0)

\* C18: the total a paginated list tool reports, in the total field of the
\* structured output and in the summary of the rendered one, is the total the
\* provider supplied in the metadata of the response, never a number computed
\* from the items of the page.
C18_TotalFromProvider ==
  (/\ call.phase = "done" /\ call.outcome.kind = "returned"
   /\ ToolOfCall.paginated
   /\ ~call.outcome.result.empty) =>
    <<call.outcome.result.total>> = call.reply.payload.total

C20_IndependentInvocations ==
  LET Own(c) ==
        (c.phase # "idle") =>
          /\ c.sent > 0 => c.request = BuildRequest(AllTools[c.tool], c.args)
          /\ c.sent = 0 => c.request = NoRequest
          /\ (c.phase = "done" /\ c.reply.state = "fulfilled") =>
               c.outcome = Outcome("returned", {}, NoFailure,
                                   Render(AllTools[c.tool], c.args, c.reply.payload))
          /\ (c.phase = "done" /\ c.reply.state = "rejected") =>
               c.outcome = Outcome("thrown", {}, c.reply.error, NoResult)
  IN  /\ Own(call)
      /\ Own(peer)
      /\ apiClient = [baseURL |-> API_BASE_URL, timeout |-> REQUEST_TIMEOUT,
                      authorization |-> "Bearer secret"]

\* C20 witness: while one timeweb_list_servers call awaits its reply, another
\* one with a different limit has started and returned
C20_ReturnedWhileOtherAwaits ==
  /\ call.phase = "awaiting" /\ peer.phase = "done"
  /\ AllTools[call.tool].name = "timeweb_list_servers"
  /\ call.tool = peer.tool
  /\ call.args["limit"] = Undefined /\ peer.args["limit"] = Num(2)
  /\ peer.outcome.kind = "returned"
  /\ peer.outcome.result.limit = 2

\* C21: a tool that changes something at the provider (create, update, delete,
\* action) has produced nothing while its request is awaited; it returns its
\* confirmation only when its one request was fulfilled, and when the request
\* was rejected the invocation is over with the rejection thrown, no
\* confirmation text or JSON, and no second request.
C21_NoPartialSuccess ==
  (call.phase # "idle" /\ ToolOfCall.kind \in {"create", "update", "delete", "action"}) =>
    /\ call.phase = "awaiting" => call.outcome = NoOutcome
    /\ call.outcome.kind = "returned" =>
         /\ call.reply.state = "fulfilled"
         /\ call.sent = 1
    /\ call.reply.state = "rejected" =>
         /\ call.phase = "done"
         /\ call.outcome = Outcome("thrown", {}, call.reply.error, NoResult)
         /\ call.calls = 1

\* C21 witness: the DELETE of timeweb_delete_server was rejected and the
\* invocation ended without a confirmation
C21_DeleteServerRejected ==
  /\ call.phase = "done"
  /\ ToolOfCall.name = "timeweb_delete_server"
  /\ call.request.method = "DELETE"
  /\ call.reply.state = "rejected"
  /\ call.outcome.kind = "thrown"
  /\ call.outcome.result = NoResult

\* C22: at every point of main()'s sequence of register calls, two entries of
\* the server's tool registry never carry the same name, so a registered name
\* stands for one tool: one handler with one schema.
C22_RegistryKeysUnique ==
  \A i, j \in DOMAIN registered :
    AllTools[registered[i]].name = AllTools[registered[j]].name =>
      /\ i = j
      /\ AllTools[registered[i]] = AllTools[registered[j]]

\* C22 witness: main() has made all its register calls, those of the longer
\* copy of the database tools among them, and the server is connected
C22_AllRegistered ==
  /\ pc = "serving"
  /\ nreg = Len(MainRegisters(databases))
  /\ databases = "registerDatabaseTools"
  /\ Len(registered) > Len(RegisteredBy("registerDatabaseTools"))
  /\ \E i \in DOMAIN registered : AllTools[registered[i]].name = "timeweb_list_databases"

\* C23: once main() has connected the server, every tool defined by
\* registerBalancerTools, registerAppTools, registerVpcTools,
\* registerFirewallTools, registerImageTools and registerDiskTools is in the
\* registry, next to those of the modules main() is seen to call.
C23_EveryDomainRegistered ==
  pc = "serving" =>
    \A id \in ToolIds :
      AllTools[id].module \in
          {"registerBalancerTools", "registerAppTools", "registerVpcTools",
           "registerFirewallTools", "registerImageTools", "registerDiskTools",
           "registerAccountTools", "registerServerTools", databases,
           "registerKubernetesTools", "registerStorageTools", "registerDomainTools"}
        => IsRegistered(id)

\* C24: a resource formatter applied to a resource in which any subset of the
\* optional or nullable fields is absent leaves, at the position of each such
\* field, the fixed placeholder of that position, and nowhere the text
\* "undefined", "null" or "NaN".
C24_AbsentSafeFormatters ==
  (probe.fn \in FormatterNames /\ probe.out # <<>>) =>
    LET mine == SelectSeq(Formatters, LAMBDA s : s.fn = probe.fn)
    IN  \A i \in DOMAIN probe.out :
          /\ probe.out[i].text \notin {"undefined", "null", "NaN"}
          /\ (mine[i].guard \in probe.absent \/ mine[i].under \in probe.absent) =>
               probe.out[i].text = mine[i].placeholder

\* C25: when the one request of an invocation settles, fulfilled or rejected
\* (the client's timeout included), the invocation is over in that step with
\* one outcome, returned or thrown, and it never awaits again: the only step
\* left is handing the outcome back.  With every request settling in the end,
\* every invocation that awaits its request ends.
C25_EveryInvocationTerminates ==
  /\ [](call.phase = "done" => call.outcome.kind \in {"returned", "thrown", "invalid"})
  /\ [][call.phase = "awaiting" => /\ call'.phase = "done"
                                   /\ call'.reply.state \in {"fulfilled", "rejected"}
                                   /\ call'.outcome.kind =
                                        IF call'.reply.state = "fulfilled" THEN "returned" ELSE "thrown"
                                   /\ call'.calls = call.calls /\ call'.sent = call.sent]_vars
  /\ [][call.phase = "done" => call' = Idle]_vars
  /\ (call.phase = "awaiting") ~> (call.phase = "done")

\* C25 witness: a request ran into the client's timeout and the invocation
\* ended with the rejection thrown
C25_EndedOnTimeout ==
  /\ call.phase = "done"
  /\ call.sent = 1
  /\ call.reply.state = "rejected"
  /\ call.reply.error.code = "ECONNABORTED"
  /\ call.outcome.kind = "thrown"
  /\ apiClient.timeout = REQUEST_TIMEOUT

\* C26: the text a tool answers with is at most CHARACTER_LIMIT characters
\* long, whatever the provider sent and in both output modes.
C26_TextWithinCharacterLimit ==
  (probe.fn = "timeweb_get_app_logs" /\ probe.out # <<>>) =>
    probe.out[1].length <= CHARACTER_LIMIT

\* C27: a create or update tool that sent its request has put into the body
\* every optional argument the caller supplied, under the key the handler
\* uses for it and with the value supplied, the number 0, the empty string
\* and false included.
C27_SuppliedOptionalsSent ==
  (/\ call.phase # "idle"
   /\ call.sent = 1
   /\ ToolOfCall.kind \in {"create", "update"}
   /\ call.request.body # NoObject) =>
    LET t == ToolOfCall
        body == call.request.body[1]
    IN  \A i \in DOMAIN t.body :
          (t.body[i].from \in Optionals(t) /\ call.args[t.body[i].from] # Undefined) =>
            /\ t.body[i].key \in DOMAIN body
            /\ t.body[i].entries \/ body[t.body[i].key] = call.args[t.body[i].from]

\* C28: the body timeweb_create_server sends never holds both preset_id and a
\* configurator: with preset_id supplied it holds preset_id with the value
\* supplied and no configurator; with preset_id not supplied it holds under
\* configurator exactly the supplied ones of cpu, ram and disk, with their
\* values, and no configurator when none of them is supplied.
C28_PresetOrConfigurator ==
  (/\ call.phase # "idle"
   /\ call.sent = 1
   /\ ToolOfCall.name = "timeweb_create_server") =>
    LET body == call.request.body[1]
        parts == {"cpu", "ram", "disk"}
        configured == {f \in parts : ("configurator." \o f) \in DOMAIN body}
    IN  /\ ~("preset_id" \in DOMAIN body /\ configured # {})
        /\ call.args["preset_id"] # Undefined =>
             /\ "preset_id" \in DOMAIN body
             /\ body["preset_id"] = call.args["preset_id"]
             /\ configured = {}
        /\ call.args["preset_id"] = Undefined =>
             /\ configured = {f \in parts : call.args[f] # Undefined}
             /\ \A f \in configured : body["configurator." \o f] = call.args[f]

\* C29: the summary line a list tool puts on a non-empty rendered page is
\* consistent with itself: the first index shown is not beyond the last one,
\* the current page is not beyond the number of pages, and there is at least
\* one page.
C29_SummarySelfConsistent ==
  (/\ call.phase = "done" /\ call.outcome.kind = "returned"
   /\ ToolOfCall.paginated
   /\ call.outcome.result.mode = "markdown" /\ ~call.outcome.result.empty) =>
    LET r == call.outcome.result
        Numbers == 0..(r.offset + r.limit + r.total + 1)
    IN  \E first, last, page, pages \in Numbers :
          /\ r.summary[2] = ToString(first) /\ r.summary[4] = ToString(last)
          /\ r.summary[8] = ToString(page) /\ r.summary[10] = ToString(pages)
          /\ first <= last
          /\ page <= pages
          /\ pages >= 1

\* C30: a request is sent only when every numeric resource identifier among
\* the arguments (server_id, db_id, cluster_id, bucket_id, ssh_key_id,
\* project_id, group_id, rule_id, balancer_id, app_id, deploy_id, disk_id,
\* backup_id, record_id, resource_id) is a positive integer: never with a
\* zero, negative or fractional one.
C30_NumericIdsPositiveIntegers ==
  (call.phase # "idle" /\ call.sent >= 1) =>
    \A f \in FieldNames(ToolOfCall) \cap
             {"server_id", "db_id", "cluster_id", "bucket_id", "ssh_key_id", "project_id",
              "group_id", "rule_id", "balancer_id", "app_id", "deploy_id", "disk_id",
              "backup_id", "record_id", "resource_id"} :
      call.args[f] # Undefined =>
        /\ call.args[f].ty = "number"
        /\ call.args[f].n % 2 = 0
        /\ call.args[f].n >= 2

====
